---- MODULE Spec2Model ----
(***************************************************************************)
(* mersal-polling: DefaultPoller (in-memory result store with anyio Event  *)
(* signals) and PollerWithTimeout (fail_after around poll).                *)
(*                                                                         *)
(* The code runs on a cooperative scheduler: everything between two        *)
(* awaits is one atomic step.  push and peek contain no suspending await,  *)
(* so each is one step.  poll suspends only in Event.wait() (line 38):     *)
(*   "parked"     - wait() was called on an unfired Event; the task sleeps *)
(*                  until push fires that Event object;                    *)
(*   "checkpoint" - wait() was called on an Event that was already fired;  *)
(*                  anyio yields once to the scheduler and then continues. *)
(* Event objects are identified by the number they were allocated with.    *)
(***************************************************************************)
EXTENDS Integers, FiniteSets, Sequences, TLC

\* ---------------------------------------------------------------- bounds
NTasks == 2
MaxPush == 2
MaxCalls == 3
MaxInvocations == 2
MaxSends == 2
MaxOps == 4

Tasks == 1..NTasks
\* task 1 calls DefaultPoller.poll directly; the other tasks call it through
\* PollerWithTimeout.poll
Direct == {1}
timed(t) == t \notin Direct
\* message identifiers: X is the identifier callers poll; Y is an identifier
\* no caller polls, which callers can only peek and events can name
Ids == {"X", "Y"}
\* message identifiers the bus gives to published events, in the order used
EventIdPool == <<"E1", "E2", "E3">>
EventIds == {EventIdPool[n] : n \in 1..Len(EventIdPool)}
\* every identifier that can be a key of the store's two maps
Keys == Ids \cup EventIds
Submitted == {"X"}
PollingStatus == {"accepted", "succeeded", "failed"}
Filters == {{}, {"accepted"}}

\* Python's None (an absent record, problem, factory or builder) / absent Event
None == [absent |-> TRUE]
NoEvent == 0

\* the ProblemDetails dataclass; an empty extensions dict is <<>>
ProblemDetails(type, title, status, detail, instance, extensions) ==
    [type |-> type, title |-> title, status |-> status, detail |-> detail,
     instance |-> instance, extensions |-> extensions]

\* the success data {"n": 1}
DataN1 == [n |-> 1]

\* the problem of a business failure
Message1Failed ==
    ProblemDetails("https://api.example.com/problems/message1-failed",
                   "Message1 Failed", 400, "Message1 failed to complete", None, <<>>)

\* (status, data, problem) arguments of push: an acceptance, a success with
\* data, a failure with a problem, and a succeeded record that carries a problem
PushArgs == {<<"accepted", None, None>>,
             <<"succeeded", DataN1, None>>,
             <<"failed", None, Message1Failed>>,
             <<"succeeded", None, Message1Failed>>}

VARIABLES
    results,    \* DefaultPoller.results : id -> PollingResult | None
    events,     \* DefaultPoller.events  : id -> Event object | NoEvent
    fired,      \* the Event objects on which set() has been called
    nextEvent,  \* identity of the next Event() object to be allocated
    pc,         \* position of each caller task
    tid,        \* message_id argument of the task's current call
    excl,       \* exclude_statuses argument of the task's current call
    awaiting,   \* the Event object the task is suspended on
    ret,        \* value returned by the task's poll call
    peeked,     \* arguments and return value of the most recent peek call
    sawAccepted,\* the task is suspended in a poll that found an accepted record when called
    abandoned,  \* ids of which a poll raised PollingTimeoutError while no record was stored
    pushed,     \* arguments <<id, status, data, problem>> of the most recent push call
    nPush,      \* number of push calls made
    nCalls,     \* number of poll and peek calls made
    via,        \* the PollerWithTimeout method, if any, that made the most recent push or peek
    wrapper,    \* the ErrorHandlerPollerWrapper instance, None before it is constructed
    bridge,     \* the invocations of ErrorHandlerPollerWrapper.handle_poison_message
    scenario,   \* the keyword arguments PollingConfig was called with and the handler registered
    config,     \* the PollingConfig instance, None before it is constructed
    queue,      \* the messages on the bus, oldest first
    handling,   \* the message whose handlers are running, or None
    count,      \* per message type, how many messages its handlers have handled
    published,  \* completed_message_id of each MessageCompletedEvent published
    completed,  \* <<type, message_id>> of every message that completed successfully
    nSent,      \* number of messages sent or published from outside the pipeline
    nEvents,    \* number of event identifiers taken from EventIdPool
    double,     \* the PollerTestDouble instance
    spy         \* the PollerSpy instance, which wraps the DefaultPoller

\* the polling plugin and the bus
dispatch == <<scenario, config, queue, handling, count, published, completed,
              nSent, nEvents>>

\* the test utilities of testing.py
doubles == <<double, spy>>

\* the state outside the store and its callers
pipeline == <<via, wrapper, bridge, dispatch, doubles>>

\* the store and its callers
store == <<results, events, fired, nextEvent, pc, tid, excl, awaiting,
           ret, peeked, sawAccepted, abandoned, pushed, nPush, nCalls>>

vars == <<results, events, fired, nextEvent, pc, tid, excl, awaiting,
          ret, peeked, sawAccepted, abandoned, pushed, nPush, nCalls, pipeline>>

\* ------------------------------------------------------------ data model
\* the types of the messages on the bus: the command, the generic completion
\* notification, and the domain events that report on the command
MessageTypes == {"Message1", "MessageCompletedEvent", "Message1Accepted",
                 "Message1CompletedSuccessfully", "Message1FailedToComplete"}
EventTypes == {"Message1Accepted", "Message1CompletedSuccessfully",
               "Message1FailedToComplete"}

\* invocations of handle_poison_message, numbered in the order they start
Invocations == 1..MaxInvocations

\* a TransportMessage, of which only headers.message_id is read
TransportMessage(message_id) == [headers |-> [message_id |-> message_id]]

\* an exception object with its text
Exception(text) == [args |-> text]

\* the exceptions that poison a message
Exceptions == {Exception("boom"), Exception("secret")}

\* the outcome of a call that raised e
Raised(e) == [raised |-> e]

\* an invocation that has not started
IdleInvocation ==
    [pc |-> "idle", message |-> None, transaction_context |-> None, exception |-> None,
     forwarded |-> <<>>, built |-> <<>>, pushes |-> <<>>, error |-> None]

PollingResult(message_id, status, data, problem) ==
    [message_id |-> message_id, status |-> status, data |-> data, problem |-> problem]

is_accepted(r) == r.status = "accepted"

\* is_success that looks at the status only
is_success_IgnoresProblem(r) == r.status = "succeeded"

is_success(r) == r.status = "succeeded" /\ r.problem = None

is_failure(r) == r.status = "failed" \/ r.problem # None

\* `not exclude_statuses or message.status not in exclude_statuses`
Admits(exclude_statuses, message) ==
    exclude_statuses = {} \/ message.status \notin exclude_statuses

\* peek that drops the exclude_statuses test
peek_NoFilter(res, message_id, exclude_statuses) == res[message_id]

\* DefaultPoller.peek
peek(res, message_id, exclude_statuses) ==
    LET message == res[message_id] IN
    IF message # None /\ exclude_statuses # {} /\ message.status \in exclude_statuses
    THEN None
    ELSE message

\* a record is stored for id i
Stored(i) == results[i] # None

Suspended(t) == pc[t] \in {"parked", "checkpoint"}

\* a suspended task whose wait() is over and that the scheduler may resume
Runnable(t) == pc[t] = "checkpoint" \/ (pc[t] = "parked" /\ awaiting[t] \in fired)

\* Python's None where a status string or an identifier is expected
NoStatus == "None"
NoId == "None"

\* PollerTestDouble.__init__; `returned` is what the most recent poll or peek
\* call returned or raised, `asked` its exclude_statuses argument, and `made`
\* the number of calls made on the instance since it was constructed
NewPollerTestDouble ==
    [stubbed_results |-> [i \in Ids |-> None],
     default_status |-> NoStatus, default_data |-> None, default_problem |-> None,
     poll_count |-> 0, peek_count |-> 0, push_count |-> 0,
     last_poll_message_id |-> NoId, last_peek_message_id |-> NoId, last_push |-> None,
     all_poll_calls |-> <<>>, all_peek_calls |-> <<>>, all_push_calls |-> <<>>,
     returned |-> None, asked |-> {}, made |-> 0]

\* PollerSpy.__init__; `made` is the number of calls made on the instance
NewPollerSpy ==
    [push_count |-> 0, last_push |-> None, all_push_calls |-> <<>>, made |-> 0]

\* ------------------------------------------------------------------ Init
Init ==
    /\ results = [i \in Keys |-> None]
    /\ events = [i \in Keys |-> NoEvent]
    /\ fired = {}
    /\ nextEvent = 1
    /\ pc = [t \in Tasks |-> "idle"]
    /\ tid = [t \in Tasks |-> "X"]
    /\ excl = [t \in Tasks |-> {}]
    /\ awaiting = [t \in Tasks |-> NoEvent]
    /\ ret = [t \in Tasks |-> None]
    /\ peeked = None
    /\ sawAccepted = [t \in Tasks |-> FALSE]
    /\ abandoned = {}
    /\ pushed = <<>>
    /\ nPush = 0
    /\ nCalls = 0
    /\ via = "none"
    /\ wrapper = None
    /\ bridge = [k \in Invocations |-> IdleInvocation]
    /\ scenario = None
    /\ config = None
    /\ queue = <<>>
    /\ handling = None
    /\ count = [T \in MessageTypes |-> 0]
    /\ published = <<>>
    /\ completed = {}
    /\ nSent = 0
    /\ nEvents = 0
    /\ double = NewPollerTestDouble
    /\ spy = NewPollerSpy

\* --------------------------------------------------------------- actions

\* push that merges: an absent data or problem argument keeps the stored field
push_Merge(message_id, status, data, problem) ==
    LET old == results[message_id] IN
    /\ results' = [results EXCEPT ![message_id] =
                       PollingResult(message_id, status,
                           IF data = None /\ old # None THEN old.data ELSE data,
                           IF problem = None /\ old # None THEN old.problem ELSE problem)]
    /\ fired' = IF events[message_id] # NoEvent
                THEN fired \cup {events[message_id]}
                ELSE fired

\* push that stores the record but never fires the Event
push_NoSet(message_id, status, data, problem) ==
    /\ results' = [results EXCEPT ![message_id] =
                       PollingResult(message_id, status, data, problem)]
    /\ fired' = fired

\* push that keeps the record already stored for the id
push_KeepsFirst(message_id, status, data, problem) ==
    /\ results' = IF results[message_id] = None
                  THEN [results EXCEPT ![message_id] =
                            PollingResult(message_id, status, data, problem)]
                  ELSE results
    /\ fired' = IF events[message_id] # NoEvent
                THEN fired \cup {events[message_id]}
                ELSE fired

\* push that fires the Event of the id but stores nothing
push_SignalsOnly(message_id, status, data, problem) ==
    /\ results' = results
    /\ fired' = IF events[message_id] # NoEvent
                THEN fired \cup {events[message_id]}
                ELSE fired

\* push that fires the Event of every id in the signal map
push_FiresAll(message_id, status, data, problem) ==
    /\ results' = [results EXCEPT ![message_id] =
                       PollingResult(message_id, status, data, problem)]
    /\ fired' = fired \cup {events[i] : i \in {k \in Keys : events[k] # NoEvent}}

\* push that does not let an accepted record replace a succeeded or failed one
push_TerminalWins(message_id, status, data, problem) ==
    /\ results' = IF /\ status = "accepted"
                     /\ results[message_id] # None
                     /\ results[message_id].status \in {"succeeded", "failed"}
                  THEN results
                  ELSE [results EXCEPT ![message_id] =
                            PollingResult(message_id, status, data, problem)]
    /\ fired' = IF events[message_id] # NoEvent
                THEN fired \cup {events[message_id]}
                ELSE fired

\* DefaultPoller.push: store the record, fire the Event stored for the id
push(message_id, status, data, problem) ==
    /\ results' = [results EXCEPT ![message_id] =
                       PollingResult(message_id, status, data, problem)]
    /\ fired' = IF events[message_id] # NoEvent
                THEN fired \cup {events[message_id]}
                ELSE fired

Push(message_id, status, data, problem) ==
    /\ nPush < MaxPush
    /\ push(message_id, status, data, problem)
    /\ pushed' = <<message_id, status, data, problem>>
    /\ nPush' = nPush + 1
    /\ UNCHANGED <<events, nextEvent, pc, tid, excl, awaiting, ret,
                   peeked, sawAccepted, abandoned, nCalls>>
    /\ UNCHANGED pipeline

\* poll that creates the signal of the id before it looks at the record
poll_EagerSignal(t, message_id, exclude_statuses) ==
    LET message == results[message_id] IN
    /\ IF events[message_id] = NoEvent
       THEN /\ events' = [events EXCEPT ![message_id] = nextEvent]
            /\ nextEvent' = nextEvent + 1
       ELSE UNCHANGED <<events, nextEvent>>
    /\ IF message # None /\ Admits(exclude_statuses, message)
       THEN /\ pc' = [pc EXCEPT ![t] = "returned"]
            /\ ret' = [ret EXCEPT ![t] = message]
            /\ awaiting' = [awaiting EXCEPT ![t] = NoEvent]
       ELSE /\ awaiting' = [awaiting EXCEPT ![t] = events'[message_id]]
            /\ pc' = [pc EXCEPT ![t] =
                         IF events'[message_id] \in fired THEN "checkpoint" ELSE "parked"]
            /\ ret' = [ret EXCEPT ![t] = None]

\* DefaultPoller.poll from the call up to the first suspension (lines 28-38)
poll(t, message_id, exclude_statuses) ==
    LET message == results[message_id] IN
    IF message # None /\ Admits(exclude_statuses, message)
    THEN /\ pc' = [pc EXCEPT ![t] = "returned"]
         /\ ret' = [ret EXCEPT ![t] = message]
         /\ awaiting' = [awaiting EXCEPT ![t] = NoEvent]
         /\ UNCHANGED <<events, nextEvent>>
    ELSE /\ IF events[message_id] = NoEvent
            THEN /\ events' = [events EXCEPT ![message_id] = nextEvent]
                 /\ nextEvent' = nextEvent + 1
            ELSE UNCHANGED <<events, nextEvent>>
         /\ awaiting' = [awaiting EXCEPT ![t] = events'[message_id]]
         /\ pc' = [pc EXCEPT ![t] =
                      IF events'[message_id] \in fired THEN "checkpoint" ELSE "parked"]
         /\ ret' = [ret EXCEPT ![t] = None]

\* a poll that, when it has to wait and nothing is stored, stores an accepted
\* record for the id as a placeholder
PollStart_StoresPending(t, message_id, exclude_statuses) ==
    /\ ~Suspended(t)
    /\ nCalls < MaxCalls
    /\ poll(t, message_id, exclude_statuses)
    /\ results' = IF results[message_id] = None
                  THEN [results EXCEPT ![message_id] =
                            PollingResult(message_id, "accepted", None, None)]
                  ELSE results
    /\ tid' = [tid EXCEPT ![t] = message_id]
    /\ excl' = [excl EXCEPT ![t] = exclude_statuses]
    /\ sawAccepted' = [sawAccepted EXCEPT ![t] =
                          /\ pc'[t] \in {"parked", "checkpoint"}
                          /\ Stored(message_id)
                          /\ is_accepted(results[message_id])]
    /\ nCalls' = nCalls + 1
    /\ UNCHANGED <<fired, peeked, abandoned, pushed, nPush>>
    /\ UNCHANGED pipeline

\* a caller starts DefaultPoller.poll, directly or through PollerWithTimeout.poll
PollStart(t, message_id, exclude_statuses) ==
    /\ ~Suspended(t)
    /\ nCalls < MaxCalls
    /\ poll(t, message_id, exclude_statuses)
    /\ tid' = [tid EXCEPT ![t] = message_id]
    /\ excl' = [excl EXCEPT ![t] = exclude_statuses]
    /\ sawAccepted' = [sawAccepted EXCEPT ![t] =
                          /\ pc'[t] \in {"parked", "checkpoint"}
                          /\ Stored(message_id)
                          /\ is_accepted(results[message_id])]
    /\ nCalls' = nCalls + 1
    /\ UNCHANGED <<results, fired, peeked, abandoned, pushed, nPush>>
    /\ UNCHANGED pipeline

\* resume without the re-check of the filter after a wake-up
resume_NoRecheck(t) ==
    /\ pc' = [pc EXCEPT ![t] = "returned"]
    /\ ret' = [ret EXCEPT ![t] = results[tid[t]]]
    /\ awaiting' = [awaiting EXCEPT ![t] = NoEvent]
    /\ UNCHANGED <<events, nextEvent>>

\* DefaultPoller.poll after wait() completes (lines 39-43, then 38 again)
resume(t) ==
    LET message == results[tid[t]] IN
    IF message = None
    THEN \* self.results[message_id] raises KeyError
         /\ pc' = [pc EXCEPT ![t] = "keyerror"]
         /\ ret' = [ret EXCEPT ![t] = None]
         /\ awaiting' = [awaiting EXCEPT ![t] = NoEvent]
         /\ UNCHANGED <<events, nextEvent>>
    ELSE IF Admits(excl[t], message)
    THEN /\ pc' = [pc EXCEPT ![t] = "returned"]
         /\ ret' = [ret EXCEPT ![t] = message]
         /\ awaiting' = [awaiting EXCEPT ![t] = NoEvent]
         /\ UNCHANGED <<events, nextEvent>>
    ELSE /\ events' = [events EXCEPT ![tid[t]] = nextEvent]
         /\ nextEvent' = nextEvent + 1
         /\ awaiting' = [awaiting EXCEPT ![t] = nextEvent]
         /\ pc' = [pc EXCEPT ![t] = "parked"]
         /\ ret' = [ret EXCEPT ![t] = None]

\* a returning poll consumes the record: it removes it from the record map
Resume_Consume(t) ==
    /\ Runnable(t)
    /\ resume(t)
    /\ results' = IF pc'[t] = "returned"
                  THEN [results EXCEPT ![tid[t]] = None]
                  ELSE results
    /\ sawAccepted' = [sawAccepted EXCEPT ![t] = @ /\ pc'[t] = "parked"]
    /\ UNCHANGED <<fired, tid, excl, peeked, abandoned, pushed, nPush, nCalls>>
    /\ UNCHANGED pipeline

Resume(t) ==
    /\ Runnable(t)
    /\ resume(t)
    /\ sawAccepted' = [sawAccepted EXCEPT ![t] = @ /\ pc'[t] = "parked"]
    /\ UNCHANGED <<results, fired, tid, excl, peeked, abandoned, pushed, nPush, nCalls>>
    /\ UNCHANGED pipeline

\* the timed-out call removes the signal of its id from the map
Timeout_Cleanup(t) ==
    /\ timed(t)
    /\ pc[t] = "checkpoint" \/ (pc[t] = "parked" /\ awaiting[t] \notin fired)
    /\ pc' = [pc EXCEPT ![t] = "timedout"]
    /\ awaiting' = [awaiting EXCEPT ![t] = NoEvent]
    /\ events' = [events EXCEPT ![tid[t]] = NoEvent]
    /\ abandoned' = IF Stored(tid[t]) THEN abandoned ELSE abandoned \cup {tid[t]}
    /\ sawAccepted' = [sawAccepted EXCEPT ![t] = FALSE]
    /\ UNCHANGED <<results, fired, nextEvent, tid, excl, ret, peeked, pushed, nPush, nCalls>>
    /\ UNCHANGED pipeline

\* the timed-out call removes the record of its id from the record map
Timeout_DropsRecord(t) ==
    /\ timed(t)
    /\ pc[t] = "checkpoint" \/ (pc[t] = "parked" /\ awaiting[t] \notin fired)
    /\ pc' = [pc EXCEPT ![t] = "timedout"]
    /\ awaiting' = [awaiting EXCEPT ![t] = NoEvent]
    /\ results' = [results EXCEPT ![tid[t]] = None]
    /\ abandoned' = IF Stored(tid[t]) THEN abandoned ELSE abandoned \cup {tid[t]}
    /\ sawAccepted' = [sawAccepted EXCEPT ![t] = FALSE]
    /\ UNCHANGED <<events, fired, nextEvent, tid, excl, ret, peeked, pushed,
                   nPush, nCalls>>
    /\ UNCHANGED pipeline

\* the deadline of fail_after is never armed
Timeout_NoDeadline(t) ==
    /\ FALSE
    /\ UNCHANGED vars

\* fail_after cancels the wait; PollerWithTimeout.poll raises PollingTimeoutError.
\* A parked task whose Event has fired is no longer cancellable at this await.
Timeout(t) ==
    /\ timed(t)
    /\ pc[t] = "checkpoint" \/ (pc[t] = "parked" /\ awaiting[t] \notin fired)
    /\ pc' = [pc EXCEPT ![t] = "timedout"]
    /\ awaiting' = [awaiting EXCEPT ![t] = NoEvent]
    /\ abandoned' = IF Stored(tid[t]) THEN abandoned ELSE abandoned \cup {tid[t]}
    /\ sawAccepted' = [sawAccepted EXCEPT ![t] = FALSE]
    /\ UNCHANGED <<results, events, fired, nextEvent, tid, excl, ret, peeked, pushed,
                   nPush, nCalls>>
    /\ UNCHANGED pipeline

\* peek that creates the signal of the id when none exists, as poll does
Peek_CreatesSignal(message_id, exclude_statuses) ==
    /\ nCalls < MaxCalls
    /\ nCalls' = nCalls + 1
    /\ peeked' = [message_id |-> message_id, exclude_statuses |-> exclude_statuses,
                  result |-> peek(results, message_id, exclude_statuses)]
    /\ IF events[message_id] = NoEvent
       THEN /\ events' = [events EXCEPT ![message_id] = nextEvent]
            /\ nextEvent' = nextEvent + 1
       ELSE UNCHANGED <<events, nextEvent>>
    /\ UNCHANGED <<results, fired, pc, tid, excl, awaiting,
                   ret, sawAccepted, abandoned, pushed, nPush>>
    /\ UNCHANGED pipeline

\* a caller calls DefaultPoller.peek (one step: peek has no suspending await)
Peek(message_id, exclude_statuses) ==
    /\ nCalls < MaxCalls
    /\ nCalls' = nCalls + 1
    /\ peeked' = [message_id |-> message_id, exclude_statuses |-> exclude_statuses,
                  result |-> peek(results, message_id, exclude_statuses)]
    /\ UNCHANGED <<results, events, fired, nextEvent, pc, tid, excl, awaiting,
                   ret, sawAccepted, abandoned, pushed, nPush>>
    /\ UNCHANGED pipeline

Next ==
    \/ \E i \in Submitted, a \in PushArgs : Push(i, a[1], a[2], a[3])
    \/ \E t \in Tasks, i \in Submitted, f \in Filters : PollStart(t, i, f)
    \/ \E t \in Tasks : Resume(t)
    \/ \E t \in Tasks : Timeout(t)
    \/ \E i \in Ids, f \in Filters : Peek(i, f)

Spec == Init /\ [][Next]_vars

\* the scheduler eventually runs every runnable task, and a fail_after
\* deadline eventually expires
FairSpec ==
    /\ Spec
    /\ \A t \in Tasks : WF_vars(Resume(t))
    /\ \A t \in Tasks : WF_vars(Timeout(t))

\* ------------------------------------------ runs of peek calls, several ids

\* what is remembered of a peek call: its arguments and return value, and of
\* the run of peek calls with these arguments that no push of the id has
\* interrupted, the number of calls so far and the return value of the first
\* of them
PeekRecord(message_id, exclude_statuses, result) ==
    LET again == /\ peeked # None
                 /\ peeked.message_id = message_id
                 /\ peeked.exclude_statuses = exclude_statuses
                 /\ peeked.run > 0
    IN [message_id |-> message_id, exclude_statuses |-> exclude_statuses,
        result |-> result,
        run |-> IF again THEN peeked.run + 1 ELSE 1,
        first |-> IF again THEN peeked.first ELSE result]

\* peek that removes the record it returns from the record map
TrackedPeek_Consumes(message_id, exclude_statuses) ==
    /\ nCalls < MaxCalls
    /\ nCalls' = nCalls + 1
    /\ peeked' = PeekRecord(message_id, exclude_statuses,
                            peek(results, message_id, exclude_statuses))
    /\ results' = IF peek(results, message_id, exclude_statuses) # None
                  THEN [results EXCEPT ![message_id] = None]
                  ELSE results
    /\ UNCHANGED <<events, fired, nextEvent, pc, tid, excl, awaiting,
                   ret, sawAccepted, abandoned, pushed, nPush>>
    /\ UNCHANGED pipeline

\* a caller calls DefaultPoller.peek; the run it belongs to is remembered
TrackedPeek(message_id, exclude_statuses) ==
    /\ nCalls < MaxCalls
    /\ nCalls' = nCalls + 1
    /\ peeked' = PeekRecord(message_id, exclude_statuses,
                            peek(results, message_id, exclude_statuses))
    /\ UNCHANGED <<results, events, fired, nextEvent, pc, tid, excl, awaiting,
                   ret, sawAccepted, abandoned, pushed, nPush>>
    /\ UNCHANGED pipeline

\* a caller calls DefaultPoller.push; a push of the id of the current run of
\* peek calls ends that run
TrackedPush(message_id, status, data, problem) ==
    /\ nPush < MaxPush
    /\ push(message_id, status, data, problem)
    /\ pushed' = <<message_id, status, data, problem>>
    /\ nPush' = nPush + 1
    /\ peeked' = IF peeked # None /\ peeked.message_id = message_id
                 THEN [peeked EXCEPT !.run = 0]
                 ELSE peeked
    /\ UNCHANGED <<events, nextEvent, pc, tid, excl, awaiting, ret,
                   sawAccepted, abandoned, nCalls>>
    /\ UNCHANGED pipeline

\* the pushes made under both identifiers: an acceptance, then a success
KeyedArgs == {<<"accepted", None, None>>, <<"succeeded", DataN1, None>>}

\* callers push and peek under both identifiers and poll one of them
KeyedNext ==
    \/ \E i \in Ids, a \in KeyedArgs : TrackedPush(i, a[1], a[2], a[3])
    \/ \E t \in Tasks, i \in Submitted, f \in Filters : PollStart(t, i, f)
    \/ \E t \in Tasks : Resume(t)
    \/ \E t \in Tasks : Timeout(t)
    \/ \E i \in Ids, f \in Filters : TrackedPeek(i, f)

KeyedSpec == Init /\ [][KeyedNext]_vars

\* ---------------------------------------------- PollerWithTimeout.peek/push

\* wrapper push that forwards message_id, status and data but not problem
PollerWithTimeout_push_DropsProblem(message_id, status, data, problem) ==
    push(message_id, status, data, None)

\* PollerWithTimeout.push: `await self._poller.push(message_id, status, data, problem)`
PollerWithTimeout_push(message_id, status, data, problem) ==
    push(message_id, status, data, problem)

\* PollerWithTimeout.peek: `return await self._poller.peek(message_id, exclude_statuses)`
PollerWithTimeout_peek(res, message_id, exclude_statuses) ==
    peek(res, message_id, exclude_statuses)

\* a push made through the wrapper
WrappedPush(message_id, status, data, problem) ==
    /\ nPush < MaxPush
    /\ PollerWithTimeout_push(message_id, status, data, problem)
    /\ pushed' = <<message_id, status, data, problem>>
    /\ nPush' = nPush + 1
    /\ via' = "push"
    /\ UNCHANGED <<wrapper, bridge, dispatch, doubles>>
    /\ UNCHANGED <<events, nextEvent, pc, tid, excl, awaiting, ret,
                   peeked, sawAccepted, abandoned, nCalls>>

\* a peek made through the wrapper
WrappedPeek(message_id, exclude_statuses) ==
    /\ nCalls < MaxCalls
    /\ nCalls' = nCalls + 1
    /\ peeked' = [message_id |-> message_id, exclude_statuses |-> exclude_statuses,
                  result |-> PollerWithTimeout_peek(results, message_id, exclude_statuses)]
    /\ via' = "peek"
    /\ UNCHANGED <<wrapper, bridge, dispatch, doubles>>
    /\ UNCHANGED <<results, events, fired, nextEvent, pc, tid, excl, awaiting,
                   ret, sawAccepted, abandoned, pushed, nPush>>

\* every push and peek goes through PollerWithTimeout; polls as before
WrapperNext ==
    \/ \E i \in Submitted, a \in PushArgs : WrappedPush(i, a[1], a[2], a[3])
    \/ \E i \in Ids, f \in Filters : WrappedPeek(i, f)
    \/ \E t \in Tasks, i \in Submitted, f \in Filters : PollStart(t, i, f)
    \/ \E t \in Tasks : Resume(t)
    \/ \E t \in Tasks : Timeout(t)

WrapperSpec == Init /\ [][WrapperNext]_vars

\* ------------------------------------------ ErrorHandlerPollerWrapper

\* the default factory with the exception text as detail
default_problem_factory_Leaks(exception, message) ==
    ProblemDetails("https://problems.mersal.dev/technical-error",
                   "Technical Error", 500, exception.args,
                   <<"/messages/", message.headers.message_id>>, <<>>)

\* ErrorHandlerPollerWrapper._default_problem_factory
default_problem_factory(exception, message) ==
    ProblemDetails("https://problems.mersal.dev/technical-error",
                   "Technical Error", 500,
                   "An unexpected error occurred while processing your request. Please try again later.",
                   <<"/messages/", message.headers.message_id>>, <<>>)

\* the bound method self._default_problem_factory
DefaultFactory == [factory |-> "_default_problem_factory"]

\* factories a caller can configure: one that reports the exception text as
\* detail, and one that itself raises
DetailFromException == [factory |-> "detail_from_exception"]
RaisingFactory == [factory |-> "raising"]

\* the problem_factory arguments of the constructor
FactoryArgs == {None, DetailFromException, RaisingFactory}

\* self.problem_factory(exception, message)
problem_factory(f, exception, message) ==
    IF f = DefaultFactory THEN default_problem_factory(exception, message)
    ELSE IF f = DetailFromException
    THEN ProblemDetails("https://api.example.com/problems/handler-error",
                        "Handler Error", 422, exception.args, None, <<>>)
    ELSE Raised(Exception("factory failed"))

\* ErrorHandlerPollerWrapper.__init__
Construct(factory) ==
    /\ wrapper = None
    /\ wrapper' = [problem_factory |-> IF factory # None THEN factory ELSE DefaultFactory]
    /\ UNCHANGED <<via, bridge, dispatch, doubles>>
    /\ UNCHANGED store

\* handle_poison_message that does not call the wrapped error handler
Invoke_SkipsHandler(k, message, transaction_context, exception) ==
    /\ wrapper # None
    /\ bridge[k].pc = "idle"
    /\ \A j \in Invocations : j < k => bridge[j].pc # "idle"
    /\ bridge' = [bridge EXCEPT ![k] =
                     [@ EXCEPT !.pc = "forwarding", !.message = message,
                               !.transaction_context = transaction_context,
                               !.exception = exception]]
    /\ UNCHANGED <<via, wrapper, dispatch, doubles>>
    /\ UNCHANGED store

\* handle_poison_message is called and calls the wrapped error handler's
\* handle_poison_message, which suspends (line 74)
Invoke(k, message, transaction_context, exception) ==
    /\ wrapper # None
    /\ bridge[k].pc = "idle"
    /\ \A j \in Invocations : j < k => bridge[j].pc # "idle"
    /\ bridge' = [bridge EXCEPT ![k] =
                     [@ EXCEPT !.pc = "forwarding", !.message = message,
                               !.transaction_context = transaction_context,
                               !.exception = exception,
                               !.forwarded = Append(@, <<message, transaction_context,
                                                         exception>>)]]
    /\ UNCHANGED <<via, wrapper, dispatch, doubles>>
    /\ UNCHANGED store

\* a wrapper that pushes the failed record in a finally clause, so also when
\* the wrapped error handler raises
HandlerRaises_PushesAnyway(k) ==
    LET b == bridge[k]
        problem == default_problem_factory(b.exception, b.message)
        id == b.message.headers.message_id
    IN /\ b.pc = "forwarding"
       /\ push(id, "failed", None, problem)
       /\ pushed' = <<id, "failed", None, problem>>
       /\ nPush' = nPush + 1
       /\ bridge' = [bridge EXCEPT ![k] =
                        [@ EXCEPT !.pc = "raised", !.error = Exception("handler failed"),
                                  !.pushes = Append(@, <<id, "failed", None, problem>>)]]
       /\ UNCHANGED <<events, nextEvent, pc, tid, excl, awaiting, ret, peeked,
                      sawAccepted, abandoned, nCalls>>
       /\ UNCHANGED <<via, wrapper, dispatch, doubles>>

\* the wrapped error handler raises: the exception leaves handle_poison_message
HandlerRaises(k) ==
    /\ bridge[k].pc = "forwarding"
    /\ bridge' = [bridge EXCEPT ![k] =
                     [@ EXCEPT !.pc = "raised", !.error = Exception("handler failed")]]
    /\ UNCHANGED <<via, wrapper, dispatch, doubles>>
    /\ UNCHANGED store

\* the push of line 80 without status="failed": push's default status is used
notify_DefaultStatus(k, message_id, problem) ==
    /\ push(message_id, "succeeded", None, problem)
    /\ pushed' = <<message_id, "succeeded", None, problem>>
    /\ nPush' = nPush + 1
    /\ bridge' = [bridge EXCEPT ![k] =
                     [@ EXCEPT !.pc = "done",
                               !.built = Append(@, <<bridge[k].exception, bridge[k].message>>),
                               !.pushes = Append(@, <<message_id, "succeeded", None, problem>>)]]

\* `await self.poller.push(message.headers.message_id, status="failed", problem=problem)`
\* of an invocation whose problem_factory call has returned the problem
notify(k, message_id, problem) ==
    /\ push(message_id, "failed", None, problem)
    /\ pushed' = <<message_id, "failed", None, problem>>
    /\ nPush' = nPush + 1
    /\ bridge' = [bridge EXCEPT ![k] =
                     [@ EXCEPT !.pc = "done",
                               !.built = Append(@, <<bridge[k].exception, bridge[k].message>>),
                               !.pushes = Append(@, <<message_id, "failed", None, problem>>)]]

\* the wrapped error handler returns; the problem is built and pushed (lines 77-80)
HandlerReturns(k) ==
    LET b == bridge[k]
        problem == problem_factory(wrapper.problem_factory, b.exception, b.message)
    IN /\ b.pc = "forwarding"
       /\ IF "raised" \in DOMAIN problem
          THEN /\ bridge' = [bridge EXCEPT ![k] =
                                [@ EXCEPT !.pc = "raised", !.error = problem.raised,
                                          !.built = Append(@, <<b.exception, b.message>>)]]
               /\ UNCHANGED <<results, fired, pushed, nPush>>
          ELSE notify(k, b.message.headers.message_id, problem)
       /\ UNCHANGED <<events, nextEvent, pc, tid, excl, awaiting, ret, peeked,
                      sawAccepted, abandoned, nCalls>>
       /\ UNCHANGED <<via, wrapper, dispatch, doubles>>

\* a wrapper is constructed on the store, messages are poisoned, and callers
\* poll without a filter (every record the wrapper pushes is a failed one)
BridgeNext ==
    \/ \E f \in FactoryArgs : Construct(f)
    \/ \E k \in Invocations, i \in Ids, e \in Exceptions :
          Invoke(k, TransportMessage(i), [tx |-> k], e)
    \/ \E k \in Invocations : HandlerRaises(k)
    \/ \E k \in Invocations : HandlerReturns(k)
    \/ \E t \in Tasks, i \in Submitted : PollStart(t, i, {})
    \/ \E t \in Tasks : Resume(t)

BridgeSpec == Init /\ [][BridgeNext]_vars

\* ------------------------------------------------------------ PollingConfig

\* the correlation dataclasses of config.py
SuccessfulCompletionCorrelation(message_id_getter, data_builder) ==
    [message_id_getter |-> message_id_getter, data_builder |-> data_builder]

FailedCompletionCorrelation(message_id_getter, problem_builder) ==
    [message_id_getter |-> message_id_getter, problem_builder |-> problem_builder]

\* the correlation the tests register for accepted events
AcceptedCorrelation(message_id_getter) ==
    [message_id_getter |-> message_id_getter]

\* callbacks a configuration can carry: a getter that reads the identifier the
\* event names in its body, a builder of the data {"n": 1}, and the builder
\* of the Message1 Failed problem
AboutGetter == [callback |-> "message_id_getter"]
N1Builder == [callback |-> "data_builder"]
Message1FailedBuilder == [callback |-> "problem_builder"]

\* the fields of the PollingConfig dataclass other than poller
PollingConfigFields ==
    {"successful_completion_events_map", "failed_completion_events_map",
     "auto_publish_completion_events", "exclude_from_completion_events",
     "problem_factory"}

PollingConfigDefaults ==
    [successful_completion_events_map |-> <<>>,
     failed_completion_events_map |-> <<>>,
     auto_publish_completion_events |-> TRUE,
     exclude_from_completion_events |-> {},
     problem_factory |-> None]

\* a constructor that drops exclude_from_completion_events
PollingConfig_IgnoresExclude(kwargs) ==
    IF DOMAIN kwargs \subseteq PollingConfigFields
    THEN [f \in PollingConfigFields |->
             IF f \in DOMAIN kwargs /\ f # "exclude_from_completion_events"
             THEN kwargs[f]
             ELSE PollingConfigDefaults[f]]
    ELSE Raised(Exception("TypeError: unexpected keyword argument"))

\* PollingConfig(poller, **kwargs): the dataclass constructor accepts the
\* declared fields and raises TypeError for any other keyword
PollingConfig(kwargs) ==
    IF DOMAIN kwargs \subseteq PollingConfigFields
    THEN [f \in PollingConfigFields |->
             IF f \in DOMAIN kwargs THEN kwargs[f] ELSE PollingConfigDefaults[f]]
    ELSE Raised(Exception("TypeError: unexpected keyword argument"))

\* the configurations of the tests, each with what the handler registered for
\* Message1 does: count, or publish an event
Scenarios ==
    << [kwargs |-> [auto_publish_completion_events |-> TRUE],
        handler |-> "counts"],
       [kwargs |-> [auto_publish_completion_events |-> TRUE,
                    exclude_from_completion_events |-> {"Message1"}],
        handler |-> "counts"],
       [kwargs |-> [successful_completion_events_map |->
                        [Message1CompletedSuccessfully |->
                             SuccessfulCompletionCorrelation(None, None)],
                    exclude_from_completion_events |-> {"Message1"}],
        handler |-> "Message1CompletedSuccessfully"],
       [kwargs |-> [successful_completion_events_map |->
                        [Message1CompletedSuccessfully |->
                             SuccessfulCompletionCorrelation(AboutGetter, N1Builder)],
                    exclude_from_completion_events |-> {"Message1"}],
        handler |-> "counts"],
       [kwargs |-> [failed_completion_events_map |->
                        [Message1FailedToComplete |->
                             FailedCompletionCorrelation(None, Message1FailedBuilder)],
                    exclude_from_completion_events |-> {"Message1"}],
        handler |-> "Message1FailedToComplete"],
       [kwargs |-> [accepted_events_map |->
                        [Message1Accepted |-> AcceptedCorrelation(None)],
                    successful_completion_events_map |->
                        [Message1CompletedSuccessfully |->
                             SuccessfulCompletionCorrelation(None, None)],
                    exclude_from_completion_events |-> {"Message1"}],
        handler |-> "Message1Accepted"] >>

\* the plugin was built from a PollingConfig instance
Configured == "auto_publish_completion_events" \in DOMAIN config

\* PollingConfig(poller, ...).plugin is evaluated and the handler registered
Configure(sc) ==
    /\ scenario = None
    /\ scenario' = sc
    /\ config' = PollingConfig(sc.kwargs)
    /\ UNCHANGED <<queue, handling, count, published, completed, nSent, nEvents>>
    /\ UNCHANGED <<via, wrapper, bridge, doubles>>
    /\ UNCHANGED store

\* ------------------------------------------------------ CompletionDispatcher

\* a message on the bus
Message(type, message_id, correlation_id, body) ==
    [type |-> type,
     headers |-> [message_id |-> message_id, correlation_id |-> correlation_id],
     body |-> body]

\* the identifier of a completion notification, which is never a key of the store
NotificationId == "notification"

\* the problem stored for a failed-completion entry without a problem_builder
GenericProblem ==
    ProblemDetails("about:blank", "Failed", 500, None, None, <<>>)

\* the identifier an entry correlates an event with: message_id_getter(event),
\* or the event's correlation identifier when the entry has no getter
target_id(entry, event) ==
    IF entry.message_id_getter = None
    THEN event.headers.correlation_id
    ELSE event.body.about

build_data(entry, event) ==
    IF entry.data_builder = None THEN None ELSE DataN1

build_problem(entry, event) ==
    IF entry.problem_builder = None THEN GenericProblem ELSE Message1Failed

\* a push made by the dispatcher
dispatch_push(message_id, status, data, problem) ==
    /\ push(message_id, status, data, problem)
    /\ pushed' = <<message_id, status, data, problem>>
    /\ nPush' = nPush + 1

\* app.send_local(Message1(), headers={"message_id": i})
Send(i) ==
    /\ Configured
    /\ nSent < MaxSends
    /\ <<"Message1", i>> \notin completed
    /\ IF handling = None THEN TRUE ELSE handling.headers.message_id # i
    /\ \A n \in 1..Len(queue) : queue[n].headers.message_id # i
    /\ queue' = Append(queue, Message("Message1", i, i, None))
    /\ nSent' = nSent + 1
    /\ UNCHANGED <<scenario, config, handling, count, published, completed, nEvents>>
    /\ UNCHANGED <<via, wrapper, bridge, doubles>>
    /\ UNCHANGED store

\* app.publish(T(), headers={"correlation_id": i}) of an event that names `about`
Publish(T, i, about) ==
    /\ Configured
    /\ nSent < MaxSends
    /\ nEvents < Len(EventIdPool)
    /\ queue' = Append(queue, Message(T, EventIdPool[nEvents + 1], i, [about |-> about]))
    /\ nEvents' = nEvents + 1
    /\ nSent' = nSent + 1
    /\ UNCHANGED <<scenario, config, handling, count, published, completed>>
    /\ UNCHANGED <<via, wrapper, bridge, doubles>>
    /\ UNCHANGED store

\* a dispatcher that treats an event of an unregistered type as a successful
\* completion of the message it is correlated with
Handle_CorrelatesUnregistered ==
    /\ Configured
    /\ handling = None
    /\ queue # <<>>
    /\ LET m == Head(queue)
           publishes == m.type = "Message1" /\ scenario.handler # "counts"
       IN /\ publishes => nEvents < Len(EventIdPool)
          /\ handling' = m
          /\ count' = [count EXCEPT ![m.type] = @ + 1]
          /\ queue' = IF publishes
                      THEN Append(Tail(queue),
                                  Message(scenario.handler, EventIdPool[nEvents + 1],
                                          m.headers.correlation_id,
                                          [about |-> m.headers.message_id]))
                      ELSE Tail(queue)
          /\ nEvents' = IF publishes THEN nEvents + 1 ELSE nEvents
          /\ IF m.type \in DOMAIN config.successful_completion_events_map
             THEN LET entry == config.successful_completion_events_map[m.type]
                  IN dispatch_push(target_id(entry, m), "succeeded",
                                   build_data(entry, m), None)
             ELSE IF m.type \in DOMAIN config.failed_completion_events_map
             THEN LET entry == config.failed_completion_events_map[m.type]
                  IN dispatch_push(target_id(entry, m), "failed", None,
                                   build_problem(entry, m))
             ELSE IF /\ "accepted_events_map" \in DOMAIN config
                     /\ m.type \in DOMAIN config.accepted_events_map
             THEN LET entry == config.accepted_events_map[m.type]
                  IN dispatch_push(target_id(entry, m), "accepted", None, None)
             ELSE IF m.type \in EventTypes
             THEN dispatch_push(m.headers.correlation_id, "succeeded", None, None)
             ELSE UNCHANGED <<results, fired, pushed, nPush>>
    /\ UNCHANGED <<scenario, config, published, completed, nSent>>
    /\ UNCHANGED <<via, wrapper, bridge, doubles>>
    /\ UNCHANGED <<events, nextEvent, pc, tid, excl, awaiting, ret, peeked,
                   sawAccepted, abandoned, nCalls>>

\* the pipeline takes the oldest message and runs its handlers: the handler
\* registered for Message1 counts or publishes its event, and the dispatcher
\* pushes for an event whose type is in one of the correlation maps
Handle ==
    /\ Configured
    /\ handling = None
    /\ queue # <<>>
    /\ LET m == Head(queue)
           publishes == m.type = "Message1" /\ scenario.handler # "counts"
       IN /\ publishes => nEvents < Len(EventIdPool)
          /\ handling' = m
          /\ count' = [count EXCEPT ![m.type] = @ + 1]
          /\ queue' = IF publishes
                      THEN Append(Tail(queue),
                                  Message(scenario.handler, EventIdPool[nEvents + 1],
                                          m.headers.correlation_id,
                                          [about |-> m.headers.message_id]))
                      ELSE Tail(queue)
          /\ nEvents' = IF publishes THEN nEvents + 1 ELSE nEvents
          /\ IF m.type \in DOMAIN config.successful_completion_events_map
             THEN LET entry == config.successful_completion_events_map[m.type]
                  IN dispatch_push(target_id(entry, m), "succeeded",
                                   build_data(entry, m), None)
             ELSE IF m.type \in DOMAIN config.failed_completion_events_map
             THEN LET entry == config.failed_completion_events_map[m.type]
                  IN dispatch_push(target_id(entry, m), "failed", None,
                                   build_problem(entry, m))
             ELSE IF /\ "accepted_events_map" \in DOMAIN config
                     /\ m.type \in DOMAIN config.accepted_events_map
             THEN LET entry == config.accepted_events_map[m.type]
                  IN dispatch_push(target_id(entry, m), "accepted", None, None)
             ELSE UNCHANGED <<results, fired, pushed, nPush>>
    /\ UNCHANGED <<scenario, config, published, completed, nSent>>
    /\ UNCHANGED <<via, wrapper, bridge, doubles>>
    /\ UNCHANGED <<events, nextEvent, pc, tid, excl, awaiting, ret, peeked,
                   sawAccepted, abandoned, nCalls>>

\* a dispatcher for which the completion notification is itself a message
\* whose completion is notified
Complete_Republishes ==
    /\ handling # None
    /\ LET m == handling
           id == m.headers.message_id
           automatic == m.type \notin config.exclude_from_completion_events
           about == IF m.type = "MessageCompletedEvent"
                    THEN m.body.completed_message_id
                    ELSE id
       IN /\ completed' = completed \cup {<<m.type, id>>}
          /\ IF automatic
             THEN /\ dispatch_push(about, "succeeded", None, None)
                  /\ IF config.auto_publish_completion_events
                     THEN /\ queue' = Append(queue,
                                 Message("MessageCompletedEvent", NotificationId, about,
                                         [completed_message_id |-> about]))
                          /\ published' = Append(published, about)
                     ELSE UNCHANGED <<queue, published>>
             ELSE UNCHANGED <<results, fired, pushed, nPush, queue, published>>
    /\ handling' = None
    /\ UNCHANGED <<scenario, config, count, nSent, nEvents>>
    /\ UNCHANGED <<via, wrapper, bridge, doubles>>
    /\ UNCHANGED <<events, nextEvent, pc, tid, excl, awaiting, ret, peeked,
                   sawAccepted, abandoned, nCalls>>

\* the handlers of the message have returned: unless its type is excluded (a
\* completion notification never triggers another), a succeeded record without
\* data is pushed under the message's own identifier and, when
\* auto_publish_completion_events is set, a MessageCompletedEvent is published
Complete ==
    /\ handling # None
    /\ LET m == handling
           id == m.headers.message_id
           automatic == /\ m.type # "MessageCompletedEvent"
                        /\ m.type \notin config.exclude_from_completion_events
       IN /\ completed' = completed \cup {<<m.type, id>>}
          /\ IF automatic
             THEN /\ dispatch_push(id, "succeeded", None, None)
                  /\ IF config.auto_publish_completion_events
                     THEN /\ queue' = Append(queue,
                                 Message("MessageCompletedEvent", NotificationId, id,
                                         [completed_message_id |-> id]))
                          /\ published' = Append(published, id)
                     ELSE UNCHANGED <<queue, published>>
             ELSE UNCHANGED <<results, fired, pushed, nPush, queue, published>>
    /\ handling' = None
    /\ UNCHANGED <<scenario, config, count, nSent, nEvents>>
    /\ UNCHANGED <<via, wrapper, bridge, doubles>>
    /\ UNCHANGED <<events, nextEvent, pc, tid, excl, awaiting, ret, peeked,
                   sawAccepted, abandoned, nCalls>>

\* the plugin is configured, messages are sent and handled, events are
\* published with the correlation identifier of the submitted message, and
\* callers poll without a filter
DispatchNext ==
    \/ \E n \in 1..Len(Scenarios) : Configure(Scenarios[n])
    \/ \E i \in Ids : Send(i)
    \/ \E T \in EventTypes, i \in Submitted, about \in Ids \ Submitted :
          Publish(T, i, about)
    \/ Handle
    \/ Complete
    \/ \E t \in Tasks, i \in Submitted : PollStart(t, i, {})
    \/ \E t \in Tasks : Resume(t)
    \/ \E t \in Tasks : Timeout(t)

DispatchSpec == Init /\ [][DispatchNext]_vars

\* ------------------------------------------- PollerTestDouble, PollerSpy

\* a KeyError with its text
KeyError(text) == [type |-> "KeyError", args |-> text]

\* the dict a push call is recorded as
call_info(message_id, status, data, problem) ==
    [message_id |-> message_id, status |-> status, data |-> data, problem |-> problem]

\* one more call was made on the instance
Called(d) == [d EXCEPT !.made = @ + 1]

\* calls can still be made on the two instances
MoreOps == double.made + spy.made < MaxOps

\* the record built from the configured default (testing.py:219-224, 255-260)
default_result(d, message_id) ==
    PollingResult(message_id, d.default_status, d.default_data, d.default_problem)

\* PollerTestDouble.poll if the configured default were consulted before the stubs
double_poll_DefaultFirst(d, message_id, exclude_statuses) ==
    IF d.stubbed_results[message_id] = None /\ d.default_status = NoStatus
    THEN Raised(KeyError("No result stubbed"))
    ELSE LET message == IF d.default_status # NoStatus
                        THEN default_result(d, message_id)
                        ELSE d.stubbed_results[message_id]
         IN IF exclude_statuses # {} /\ message.status \in exclude_statuses
            THEN Raised(KeyError("status is in the excluded statuses list"))
            ELSE message

\* what PollerTestDouble.poll returns or raises after recording the call
\* (testing.py:212-233)
double_poll(d, message_id, exclude_statuses) ==
    IF d.stubbed_results[message_id] = None /\ d.default_status = NoStatus
    THEN Raised(KeyError("No result stubbed"))
    ELSE LET message == IF d.stubbed_results[message_id] = None
                        THEN default_result(d, message_id)
                        ELSE d.stubbed_results[message_id]
         IN IF exclude_statuses # {} /\ message.status \in exclude_statuses
            THEN Raised(KeyError("status is in the excluded statuses list"))
            ELSE message

\* what PollerTestDouble.peek returns (testing.py:253-264)
double_peek(d, message_id, exclude_statuses) ==
    LET stubbed == d.stubbed_results[message_id]
        message == IF stubbed = None /\ d.default_status # NoStatus
                   THEN default_result(d, message_id)
                   ELSE stubbed
    IN IF message # None /\ exclude_statuses # {} /\ message.status \in exclude_statuses
       THEN None
       ELSE message

\* PollerTestDouble.stub_result as a change of the instance
stubbed(d, message_id, status, data, problem) ==
    [d EXCEPT !.stubbed_results[message_id] =
                  PollingResult(message_id, status, data, problem)]

\* PollerTestDouble.stub_result
stub_result(message_id, status, data, problem) ==
    /\ MoreOps
    /\ double' = Called(stubbed(double, message_id, status, data, problem))
    /\ UNCHANGED <<spy, via, wrapper, bridge, dispatch>>
    /\ UNCHANGED store

\* PollerTestDouble.accept_all
accept_all(data) ==
    /\ MoreOps
    /\ double' = Called([double EXCEPT !.default_status = "accepted",
                                       !.default_data = data,
                                       !.default_problem = None])
    /\ UNCHANGED <<spy, via, wrapper, bridge, dispatch>>
    /\ UNCHANGED store

\* PollerTestDouble.succeed_all
succeed_all(data) ==
    /\ MoreOps
    /\ double' = Called([double EXCEPT !.default_status = "succeeded",
                                       !.default_data = data,
                                       !.default_problem = None])
    /\ UNCHANGED <<spy, via, wrapper, bridge, dispatch>>
    /\ UNCHANGED store

\* PollerTestDouble.fail_all
fail_all(problem) ==
    /\ MoreOps
    /\ double' = Called([double EXCEPT !.default_status = "failed",
                                       !.default_data = None,
                                       !.default_problem = problem])
    /\ UNCHANGED <<spy, via, wrapper, bridge, dispatch>>
    /\ UNCHANGED store

\* PollerTestDouble.poll: the call is recorded, then the result is looked up
PollerTestDouble_poll(message_id, exclude_statuses) ==
    /\ MoreOps
    /\ double' = Called([double EXCEPT
                            !.poll_count = @ + 1,
                            !.last_poll_message_id = message_id,
                            !.all_poll_calls = Append(@, message_id),
                            !.asked = exclude_statuses,
                            !.returned = double_poll(double, message_id, exclude_statuses)])
    /\ UNCHANGED <<spy, via, wrapper, bridge, dispatch>>
    /\ UNCHANGED store

\* PollerTestDouble.peek
PollerTestDouble_peek(message_id, exclude_statuses) ==
    /\ MoreOps
    /\ double' = Called([double EXCEPT
                            !.peek_count = @ + 1,
                            !.last_peek_message_id = message_id,
                            !.all_peek_calls = Append(@, message_id),
                            !.asked = exclude_statuses,
                            !.returned = double_peek(double, message_id, exclude_statuses)])
    /\ UNCHANGED <<spy, via, wrapper, bridge, dispatch>>
    /\ UNCHANGED store

\* PollerTestDouble.push: the call is recorded and the record stubbed
PollerTestDouble_push(message_id, status, data, problem) ==
    /\ MoreOps
    /\ double' = Called(stubbed([double EXCEPT
                                    !.push_count = @ + 1,
                                    !.last_push = call_info(message_id, status, data, problem),
                                    !.all_push_calls =
                                        Append(@, call_info(message_id, status, data, problem))],
                                message_id, status, data, problem))
    /\ UNCHANGED <<spy, via, wrapper, bridge, dispatch>>
    /\ UNCHANGED store

\* PollerTestDouble.reset if it left the recorded push calls in place
PollerTestDouble_reset_KeepsCalls ==
    /\ MoreOps
    /\ double' = [NewPollerTestDouble EXCEPT !.made = double.made + 1,
                                             !.all_push_calls = double.all_push_calls]
    /\ UNCHANGED <<spy, via, wrapper, bridge, dispatch>>
    /\ UNCHANGED store

\* PollerTestDouble.reset
PollerTestDouble_reset ==
    /\ MoreOps
    /\ double' = [NewPollerTestDouble EXCEPT !.made = double.made + 1]
    /\ UNCHANGED <<spy, via, wrapper, bridge, dispatch>>
    /\ UNCHANGED store

\* PollerSpy.push: the call is recorded, then delegated to the wrapped poller
PollerSpy_push(message_id, status, data, problem) ==
    /\ MoreOps
    /\ nPush < MaxPush
    /\ spy' = Called([spy EXCEPT
                         !.push_count = @ + 1,
                         !.last_push = call_info(message_id, status, data, problem),
                         !.all_push_calls =
                             Append(@, call_info(message_id, status, data, problem))])
    /\ push(message_id, status, data, problem)
    /\ pushed' = <<message_id, status, data, problem>>
    /\ nPush' = nPush + 1
    /\ UNCHANGED <<double, via, wrapper, bridge, dispatch>>
    /\ UNCHANGED <<events, nextEvent, pc, tid, excl, awaiting, ret,
                   peeked, sawAccepted, abandoned, nCalls>>

\* PollerSpy.reset
PollerSpy_reset ==
    /\ MoreOps
    /\ spy' = [NewPollerSpy EXCEPT !.made = spy.made + 1]
    /\ UNCHANGED <<double, via, wrapper, bridge, dispatch>>
    /\ UNCHANGED store

\* a test stubs, configures defaults, polls, peeks, pushes and resets the test
\* double, and pushes through and resets the spy
DoubleNext ==
    \/ \E a \in PushArgs : stub_result("X", a[1], a[2], a[3])
    \/ \E d \in {None, DataN1} : accept_all(d)
    \/ \E d \in {None, DataN1} : succeed_all(d)
    \/ \E p \in {None, Message1Failed} : fail_all(p)
    \/ \E i \in Ids, f \in Filters : PollerTestDouble_poll(i, f)
    \/ \E i \in Ids, f \in Filters : PollerTestDouble_peek(i, f)
    \/ \E a \in KeyedArgs : PollerTestDouble_push("X", a[1], a[2], a[3])
    \/ PollerTestDouble_reset
    \/ \E a \in KeyedArgs : PollerSpy_push("X", a[1], a[2], a[3])
    \/ PollerSpy_reset

DoubleSpec == Init /\ [][DoubleNext]_vars

\* ------------------------------------------------------- claim helpers
RecordOf(a) == [message_id |-> a[1], status |-> a[2], data |-> a[3], problem |-> a[4]]

\* a step in which a push call was made
PushStep == nPush' = nPush + 1

\* ---------------------------------------------------------------- C1
\* C1: no lost wake-up.  Every push(id) whose status the filter of a task
\* suspended in poll(id) admits releases that task: after the push the task's
\* wait() is over, whether or not earlier pushes of excluded statuses woke it
\* and made it wait again.
C1_NoLostWakeup ==
    [][\A t \in Tasks :
          (/\ Suspended(t)
           /\ PushStep
           /\ pushed'[1] = tid[t]
           /\ Admits(excl[t], results'[tid[t]]))
          => Runnable(t)']_vars

\* ---------------------------------------------------------------- C2
\* C2: a poll call never returns a record whose status is in its
\* exclude_statuses, on the fast path or after any number of wake-ups.
C2_NeverReturnsExcluded ==
    \A t \in Tasks :
        pc[t] = "returned" => (ret[t] # None /\ ret[t].status \notin excl[t])

\* two polls were the only calls: one without filter returned the accepted
\* record, the other excluded it, was woken, re-armed with a second Event and
\* returned the succeeded record pushed afterwards
C2_Witness ==
    \E t, u \in Tasks :
        /\ nCalls = 2
        /\ pc[u] = "returned" /\ excl[u] = {} /\ ret[u].status = "accepted"
        /\ pc[t] = "returned" /\ excl[t] = {"accepted"} /\ ret[t].status = "succeeded"
        /\ nextEvent = 3

\* ---------------------------------------------------------------- C3
\* C3: broadcast wake.  When no record exists for id, one push(id, succeeded)
\* ends the wait() of every task blocked in poll(id) whose filter admits
\* succeeded; each of them then runs and returns, and while that push is the
\* only one every returned poll holds the succeeded record it stored.
C3_BroadcastWake ==
    /\ [][\A t \in Tasks :
             (/\ Suspended(t)
              /\ ~Stored(tid[t])
              /\ PushStep
              /\ pushed'[1] = tid[t]
              /\ pushed'[2] = "succeeded"
              /\ "succeeded" \notin excl[t])
             => (pc'[t] = "parked" /\ awaiting'[t] \in fired')]_vars
    /\ [](\A t \in Tasks :
             (nPush = 1 /\ pushed[2] = "succeeded" /\ pc[t] = "returned")
             => ret[t] = RecordOf(pushed))
    /\ \A t \in Tasks :
          (pc[t] = "parked" /\ awaiting[t] \in fired /\ nPush = 1
             /\ pushed[2] = "succeeded")
          ~> (pc[t] = "returned" \/ nPush > 1)

\* every task was blocked in poll(X) when the only push, push(X, succeeded),
\* was made, and that push has ended the wait() of all of them
C3_Witness ==
    /\ nPush = 1
    /\ pushed[2] = "succeeded"
    /\ results["X"] = RecordOf(pushed)
    /\ \A t \in Tasks : pc[t] = "parked" /\ tid[t] = "X" /\ awaiting[t] \in fired

\* ---------------------------------------------------------------- C4
\* C4: a poll(id, exclude_statuses=[accepted]) that found the accepted record
\* at call time never returns the accepted record, and once a later push has
\* stored a succeeded or failed record it is released to return that record:
\* it is not left blocked on an unfired signal.
C4_ReturnsLaterRecord ==
    \A t \in Tasks :
        /\ (pc[t] = "returned" /\ excl[t] = {"accepted"})
              => ret[t].status \in {"succeeded", "failed"}
        /\ (sawAccepted[t] /\ results[tid[t]].status \in {"succeeded", "failed"})
              => Runnable(t)

\* ---------------------------------------------------------------- C5
\* C5: last write wins without merge.  The store holds one record per id, and
\* in every state after a push the record stored for the id of the most recent
\* push, and what an unfiltered peek of that id returns, is exactly the record
\* built from that push's four arguments, whatever polls ran in between.
C5_LastWriteWins ==
    /\ DOMAIN results = Keys
    /\ pushed # <<>> =>
          /\ results[pushed[1]] = RecordOf(pushed)
          /\ peek(results, pushed[1], {}) = RecordOf(pushed)
    /\ (peeked # None /\ pushed # <<>> /\ peeked.message_id = pushed[1]
           /\ peeked.exclude_statuses = {} /\ peeked.result # None /\ nPush = 1)
          => peeked.result = RecordOf(pushed)

\* a first push with data woke a poll that returned it; a second push without
\* data replaced the record, and a peek returned the second record
C5_Witness ==
    /\ nPush = 2
    /\ pushed = <<"X", "failed", None, Message1Failed>>
    /\ \E t \in Tasks : pc[t] = "returned" /\ ret[t].data = DataN1 /\ awaiting[t] = NoEvent
    /\ peeked # None
    /\ peeked.result = RecordOf(pushed)

\* ---------------------------------------------------------------- C6
\* C6: for an id that has not been pushed, every peek returned absent, no poll
\* has returned a record, and a poll made through PollerWithTimeout ends by
\* raising PollingTimeoutError unless a push for the id occurs.
C6_NeverPushed ==
    /\ [](peeked # None /\ ~Stored(peeked.message_id) => peeked.result = None)
    /\ [](\A t \in Tasks : ~Stored(tid[t]) => pc[t] \notin {"returned", "keyerror"})
    /\ \A t \in Tasks :
          (timed(t) /\ Suspended(t)) ~> (pc[t] = "timedout" \/ Stored(tid[t]))

\* a timed poll of X has raised PollingTimeoutError, a peek of X has returned
\* absent, and X has never been pushed
C6_Witness ==
    /\ nPush = 0
    /\ \E t \in Tasks : pc[t] = "timedout" /\ tid[t] = "X"
    /\ peeked # None
    /\ peeked.message_id = "X"
    /\ peeked.result = None

C8_TimeoutDoesNotCorrupt ==
    /\ [](\A i \in abandoned : nPush = 0 => ~Stored(i))
    /\ [][(PushStep /\ pushed'[1] \in abandoned)
            => /\ results'[pushed'[1]] = RecordOf(pushed')
               /\ (peek(results, pushed[1], {}))' = RecordOf(pushed')
               /\ \A t \in Tasks :
                     (Suspended(t) /\ tid[t] = pushed'[1]
                        /\ Admits(excl[t], RecordOf(pushed')))
                     => Runnable(t)']_vars

\* ---------------------------------------------------------------- C9
\* C9: PollerWithTimeout.poll raises PollingTimeoutError only while no record
\* admitted by its filter exists for the id: a poll parked on its signal is
\* never timed out in a state where the store holds an admitted record.
C9_TimeoutOnlyWithoutAdmittedRecord ==
    [][\A t \in Tasks :
          (pc[t] = "parked" /\ pc'[t] = "timedout")
          => (~Stored(tid[t]) \/ ~Admits(excl[t], results[tid[t]]))]_vars

\* --------------------------------------------------------------- C10
\* C10: every peek(id, exclude_statuses) call returns absent when no record
\* is stored for id, absent when the stored record's status is in
\* exclude_statuses, and otherwise exactly the stored record; a returned
\* record with status succeeded and no problem has is_success true.
C10_PeekResult ==
    [][peeked' # peeked =>
          LET i == peeked'.message_id
              f == peeked'.exclude_statuses
              r == peeked'.result
          IN /\ ~Stored(i) => r = None
             /\ (Stored(i) /\ results[i].status \in f) => r = None
             /\ (Stored(i) /\ results[i].status \notin f) => r = results[i]
             /\ (r # None /\ r.status = "succeeded" /\ r.problem = None)
                   => is_success(r)]_vars

\* push(X, accepted) was returned by a poll, then push(X, succeeded, data)
\* replaced it and peek(X, [accepted]) returned the succeeded record
C10_Witness ==
    /\ nPush = 2
    /\ pushed = <<"X", "succeeded", DataN1, None>>
    /\ \E t \in Tasks : pc[t] = "returned" /\ is_accepted(ret[t])
    /\ peeked # None
    /\ peeked.message_id = "X"
    /\ peeked.exclude_statuses = {"accepted"}
    /\ peeked.result = RecordOf(pushed)
    /\ is_success(peeked.result)

\* --------------------------------------------------------------- C11
\* C11: peek never blocks and never mutates state.  From every state and for
\* every id and filter a peek call is one step that delivers its result, and
\* that step leaves the id->record map and the id->signal map unchanged,
\* creates no signal, fires none, and changes no caller's position or wait.
C11_PeekIsPure ==
    [][\A i \in Ids, f \in Filters :
          Peek(i, f) =>
              /\ peeked' # None
              /\ peeked'.message_id = i
              /\ results' = results
              /\ events' = events
              /\ fired' = fired
              /\ nextEvent' = nextEvent
              /\ pc' = pc
              /\ awaiting' = awaiting
              /\ \A t \in Tasks : Runnable(t)' = Runnable(t)]_vars

\* a poll of X that excludes accepted was woken by push(X, accepted) and waits
\* again on its second signal, which is in the map and unfired; peek(X) has
\* returned the accepted record
C11_Witness ==
    /\ \E t \in Tasks :
          /\ pc[t] = "parked"
          /\ awaiting[t] = events["X"]
          /\ awaiting[t] \notin fired
    /\ nextEvent = 3
    /\ peeked # None
    /\ peeked.message_id = "X"
    /\ peeked.result # None
    /\ is_accepted(peeked.result)

\* --------------------------------------------------------------- C12
\* C12: when poll(id, exclude_statuses) is called while a record of id is
\* stored whose status is not excluded, the call returns that record in the
\* calling step, without suspending, without creating a signal for id and
\* without changing the record map, the signal map or any signal.
C12_FastPath ==
    [][\A t \in Tasks, i \in Submitted, f \in Filters :
          (PollStart(t, i, f) /\ Stored(i) /\ Admits(f, results[i])) =>
              /\ pc'[t] = "returned"
              /\ ret'[t] = results[i]
              /\ results' = results
              /\ events' = events
              /\ fired' = fired
              /\ nextEvent' = nextEvent]_vars

\* the only call was a poll made after a push: it returned the record and no
\* signal was ever created
C12_Witness ==
    \E t \in Tasks :
        /\ pc[t] = "returned"
        /\ ret[t] = results[tid[t]]
        /\ nCalls = 1
        /\ nPush = 1
        /\ nextEvent = 1
        /\ events = [i \in Keys |-> NoEvent]

\* --------------------------------------------------------------- C13
\* C13: push, peek and poll never raise.  The record lookup after a wake-up
\* always finds a record (no caller ever ends in KeyError), a returned poll
\* holds a record, a caller through PollerWithTimeout ends only with a record
\* or with PollingTimeoutError, and a direct caller never sees a timeout.
C13_NeverRaises ==
    \A t \in Tasks :
        /\ pc[t] # "keyerror"
        /\ pc[t] \in {"idle", "parked", "checkpoint", "returned", "timedout"}
        /\ pc[t] = "returned" => (ret[t] # None /\ ret[t].status \in PollingStatus)
        /\ pc[t] = "timedout" => timed(t)
        /\ Runnable(t) => Stored(tid[t])

\* one push woke two polls: the direct one returned the record, and the timed
\* one, which excluded it, waited again and raised PollingTimeoutError
C13_Witness ==
    \E t, u \in Tasks :
        /\ nPush = 1
        /\ fired # {}
        /\ pc[t] = "returned"
        /\ ~timed(t)
        /\ pc[u] = "timedout"
        /\ nextEvent = 3

\* --------------------------------------------------------------- C14
\* C14: PollerWithTimeout.push and PollerWithTimeout.peek are observationally
\* identical to the wrapped store's push and peek.  From every state reached
\* through the wrapper, a wrapper push changes the store exactly as the
\* store's own push with the same four arguments does, a wrapper peek returns
\* exactly what the store's own peek returns and changes nothing, and neither
\* makes any caller end with PollingTimeoutError.
C14_WrapperDelegates ==
    [][/\ \A i \in Submitted, a \in PushArgs :
             WrappedPush(i, a[1], a[2], a[3]) =>
                 /\ push(i, a[1], a[2], a[3])
                 /\ UNCHANGED <<events, nextEvent, pc, awaiting, ret>>
       /\ \A i \in Ids, f \in Filters :
             WrappedPeek(i, f) =>
                 /\ peeked'.result = peek(results, i, f)
                 /\ UNCHANGED <<results, events, fired, nextEvent, pc, awaiting, ret>>]_vars

\* a push of a failed record with a problem made through the wrapper woke a
\* blocked poll, which returned that record, and a filtered peek through the
\* wrapper returned it too
C14_Witness ==
    /\ via = "peek"
    /\ pushed # <<>>
    /\ pushed[4] = Message1Failed
    /\ peeked.message_id = "X"
    /\ peeked.exclude_statuses = {"accepted"}
    /\ peeked.result = RecordOf(pushed)
    /\ is_failure(peeked.result)
    /\ \E t \in Tasks :
          pc[t] = "returned" /\ ret[t] = RecordOf(pushed) /\ nextEvent > 1

\* --------------------------------------------------------------- C15
\* C15: in every invocation of handle_poison_message the wrapped error handler
\* is invoked exactly once, with the invocation's own message, transaction
\* context and exception; the failed record is pushed only in a step in which
\* that handler invocation, started earlier, has completed; and no push is
\* ever made by an invocation that has not forwarded.
C15_ForwardsOnceBeforePush ==
    /\ [](\A k \in Invocations :
             LET b == bridge[k] IN
             /\ Len(b.forwarded) <= 1
             /\ b.pc # "idle" =>
                    b.forwarded = << <<b.message, b.transaction_context, b.exception>> >>
             /\ b.pushes # <<>> => (Len(b.forwarded) = 1 /\ b.pc = "done"))
    /\ [][\A k \in Invocations :
             bridge'[k].pushes # bridge[k].pushes =>
                 /\ bridge[k].pc = "forwarding"
                 /\ Len(bridge[k].forwarded) = 1
                 /\ bridge'[k].forwarded = bridge[k].forwarded]_vars
    /\ [][nPush' # nPush =>
             \E k \in Invocations :
                 /\ Len(bridge[k].forwarded) = 1
                 /\ Len(bridge'[k].pushes) = Len(bridge[k].pushes) + 1]_vars

\* the first invocation has forwarded and pushed; the second has forwarded its
\* own arguments and, its handler still running, has pushed nothing
C15_Witness ==
    /\ bridge[1].pc = "done"
    /\ Len(bridge[1].forwarded) = 1
    /\ Len(bridge[1].pushes) = 1
    /\ bridge[2].pc = "forwarding"
    /\ bridge[2].forwarded = << <<TransportMessage("Y"), [tx |-> 2], Exception("secret")>> >>
    /\ bridge[2].pushes = <<>>
    /\ nPush = 1
    /\ ~Stored("Y")

\* --------------------------------------------------------------- C16
\* C16: an invocation of handle_poison_message that completed normally has
\* made exactly one push: under the failing message's own message_id, with
\* status failed, no data, and the problem problem_factory(exception, message)
\* of the configured factory, which without a configured factory is the
\* technical-error problem with status 500; the store then holds a failure
\* for that id, and a poll that returns holds a record with is_failure true
\* and, in the default case, problem.status 500.
C16_PushesOneFailedRecord ==
    /\ nPush = Cardinality({k \in Invocations : bridge[k].pc = "done"})
    /\ \A k \in Invocations :
          bridge[k].pc = "done" =>
              LET b == bridge[k]
                  id == b.message.headers.message_id
              IN /\ Len(b.pushes) = 1
                 /\ b.pushes[1][1] = id
                 /\ b.pushes[1][2] = "failed"
                 /\ b.pushes[1][3] = None
                 /\ b.pushes[1][4] =
                        problem_factory(wrapper.problem_factory, b.exception, b.message)
                 /\ wrapper.problem_factory = DefaultFactory =>
                        /\ b.pushes[1][4].status = 500
                        /\ b.pushes[1][4].type = "https://problems.mersal.dev/technical-error"
                 /\ Stored(id)
                 /\ results[id].message_id = id
                 /\ is_failure(results[id])
    /\ \A t \in Tasks :
          pc[t] = "returned" =>
              /\ is_failure(ret[t])
              /\ ret[t].status = "failed"
              /\ ret[t].data = None
              /\ wrapper.problem_factory = DefaultFactory => ret[t].problem.status = 500

\* without a configured factory, a poll of X that was blocked returned the
\* failed record, with problem status 500, that the invocation for X pushed
C16_Witness ==
    /\ wrapper # None
    /\ wrapper.problem_factory = DefaultFactory
    /\ bridge[1].pc = "done"
    /\ bridge[1].message = TransportMessage("X")
    /\ nPush = 1
    /\ \E t \in Tasks :
          /\ pc[t] = "returned"
          /\ nextEvent > 1
          /\ ret[t] = RecordOf(bridge[1].pushes[1])
          /\ is_failure(ret[t])
          /\ ret[t].problem.status = 500

\* --------------------------------------------------------------- C17
\* C17: with no problem_factory configured the stored problem does not depend
\* on the exception.  The default factory gives the same problem for any two
\* exceptions and the same message; two completed invocations for the same
\* message have pushed identical records; and no text field of a stored or
\* returned problem is the text of an exception.
C17_DefaultProblemIgnoresException ==
    /\ \A e1, e2 \in Exceptions, i \in Ids :
          default_problem_factory(e1, TransportMessage(i)) =
              default_problem_factory(e2, TransportMessage(i))
    /\ (wrapper # None /\ wrapper.problem_factory = DefaultFactory) =>
          /\ \A k1, k2 \in Invocations :
                (/\ bridge[k1].pc = "done"
                 /\ bridge[k2].pc = "done"
                 /\ bridge[k1].message = bridge[k2].message)
                => bridge[k1].pushes = bridge[k2].pushes
          /\ \A i \in Ids, e \in Exceptions :
                Stored(i) =>
                    LET p == results[i].problem IN
                    e.args \notin {p.type, p.title, p.detail, p.instance[1], p.instance[2]}
          /\ \A t \in Tasks, e \in Exceptions :
                pc[t] = "returned" =>
                    LET p == ret[t].problem IN
                    e.args \notin {p.type, p.title, p.detail, p.instance[1], p.instance[2]}

\* without a configured factory, message X was poisoned by two different
\* exceptions, both invocations completed, and a poll returned the record
C17_Witness ==
    /\ wrapper # None
    /\ wrapper.problem_factory = DefaultFactory
    /\ bridge[1].pc = "done"
    /\ bridge[2].pc = "done"
    /\ bridge[1].message = TransportMessage("X")
    /\ bridge[2].message = TransportMessage("X")
    /\ bridge[1].exception # bridge[2].exception
    /\ bridge[1].pushes = bridge[2].pushes
    /\ \E t \in Tasks : pc[t] = "returned" /\ ret[t] = results["X"]

\* ------------------------------------------------------- dispatch helpers
\* how often x occurs in a sequence
Occurrences(seq, x) == Cardinality({n \in 1..Len(seq) : seq[n] = x})

\* the completion notifications waiting in the queue
QueuedNotifications ==
    {n \in 1..Len(queue) : queue[n].type = "MessageCompletedEvent"}

\* the identifiers of the completed messages the automatic path applies to
AutoCompleted ==
    {p[2] : p \in {q \in completed :
                      /\ q[1] # "MessageCompletedEvent"
                      /\ q[1] \notin config.exclude_from_completion_events}}

\* a step in which the handlers of the message being handled return
CompleteStep == handling # None /\ handling' = None

\* --------------------------------------------------------------- C18
\* C18: with auto_publish_completion_events true, every completed message of
\* a type that is not excluded has exactly one MessageCompletedEvent published
\* for its identifier and no other identifier has any; each published
\* notification is waiting in the queue or was handled once, so handling one
\* publishes no further one; the step that completes such a message pushes
\* the record (id, succeeded, no data, no problem) under the message's own
\* identifier, which is_success holds of and which releases the pollers of
\* that identifier; and where no correlation map is configured every poll
\* that returned holds such a record.
C18_OneCompletionEventAndSuccessRecord ==
    /\ []((Configured /\ config.auto_publish_completion_events) =>
             /\ \A i \in Keys \cup {NotificationId} :
                    Occurrences(published, i) = IF i \in AutoCompleted THEN 1 ELSE 0
             /\ count["MessageCompletedEvent"] + Cardinality(QueuedNotifications)
                    = Len(published)
             /\ \A n \in QueuedNotifications :
                    /\ queue[n].body.completed_message_id \in AutoCompleted
                    /\ \A k \in QueuedNotifications :
                           k # n => queue[k].body.completed_message_id
                                      # queue[n].body.completed_message_id
             /\ (/\ config.successful_completion_events_map = <<>>
                 /\ config.failed_completion_events_map = <<>>) =>
                    /\ \A i \in AutoCompleted :
                           results[i] = PollingResult(i, "succeeded", None, None)
                    /\ \A t \in Tasks :
                           pc[t] = "returned" =>
                               /\ is_success(ret[t])
                               /\ ret[t] = PollingResult(tid[t], "succeeded", None, None)
                               /\ tid[t] \in AutoCompleted)
    /\ [][(/\ CompleteStep
           /\ handling.type # "MessageCompletedEvent"
           /\ handling.type \notin config.exclude_from_completion_events
           /\ config.auto_publish_completion_events) =>
              LET id == handling.headers.message_id IN
              /\ PushStep
              /\ pushed' = <<id, "succeeded", None, None>>
              /\ is_success(results'[id])
              /\ published' = Append(published, id)
              /\ \A t \in Tasks : (Suspended(t) /\ tid[t] = id) => Runnable(t)']_vars

\* Message1 was sent under X with nothing excluded and no map: its handler ran
\* once, one notification for X was published and handled once, its handling
\* published nothing, and a poll of X that was blocked returned the success
\* record
C18_Witness ==
    /\ Configured
    /\ config.auto_publish_completion_events
    /\ config.exclude_from_completion_events = {}
    /\ count["Message1"] = 1
    /\ count["MessageCompletedEvent"] = 1
    /\ <<"MessageCompletedEvent", NotificationId>> \in completed
    /\ published = <<"X">>
    /\ queue = <<>>
    /\ handling = None
    /\ \E t \in Tasks :
          /\ pc[t] = "returned"
          /\ nextEvent > 1
          /\ ret[t] = PollingResult("X", "succeeded", None, None)
          /\ is_success(ret[t])

\* --------------------------------------------------------------- C19
\* the set passed as exclude_from_completion_events when the plugin was configured
RequestedExclusions ==
    IF scenario # None /\ "exclude_from_completion_events" \in DOMAIN scenario.kwargs
    THEN scenario.kwargs.exclude_from_completion_events
    ELSE {}

\* no correlation map was passed when the plugin was configured
NoMapsRequested ==
    /\ scenario # None
    /\ DOMAIN scenario.kwargs \subseteq
           {"auto_publish_completion_events", "exclude_from_completion_events"}

\* C19: the completion of a message whose type was passed in
\* exclude_from_completion_events pushes nothing, publishes nothing and wakes
\* nobody, with auto_publish_completion_events true as well; no notification
\* is ever published for its identifier; and when no correlation map is
\* configured, Message1 is excluded and only Message1 messages were sent, its
\* handler has run once per message handled, the handler of MessageCompletedEvent has never run, nothing is
\* stored under the identifier, no poll of it has returned, and a timed poll
\* of it that has ended has ended with PollingTimeoutError.
C19_ExcludedTypeNoNotificationNoRecord ==
    /\ [][(CompleteStep /\ handling.type \in RequestedExclusions) =>
              UNCHANGED <<results, fired, pushed, nPush, queue, published>>]_vars
    /\ [](Configured =>
             \A p \in completed :
                 p[1] \in RequestedExclusions => Occurrences(published, p[2]) = 0)
    /\ []((/\ Configured
            /\ NoMapsRequested
            /\ "Message1" \in RequestedExclusions
            /\ nEvents = 0) =>
             /\ count["Message1"] =
                    Cardinality({i \in Ids : <<"Message1", i>> \in completed})
                    + (IF handling # None /\ handling.type = "Message1" THEN 1 ELSE 0)
             /\ count["MessageCompletedEvent"] = 0
             /\ published = <<>>
             /\ nPush = 0
             /\ \A i \in Ids : ~Stored(i)
             /\ \A t \in Tasks :
                    /\ pc[t] # "returned"
                    /\ (timed(t) /\ tid[t] \in Ids /\ ~Suspended(t) /\ pc[t] # "idle")
                           => pc[t] = "timedout")

\* Message1 was excluded with auto_publish_completion_events true and was sent
\* under X; its handler ran once and it completed; no notification was
\* published or handled, nothing is stored under X, and a timed poll of X
\* raised PollingTimeoutError
C19_Witness ==
    /\ Configured
    /\ NoMapsRequested
    /\ scenario.kwargs.auto_publish_completion_events
    /\ "Message1" \in RequestedExclusions
    /\ nEvents = 0
    /\ <<"Message1", "X">> \in completed
    /\ count["Message1"] = 1
    /\ count["MessageCompletedEvent"] = 0
    /\ queue = <<>>
    /\ handling = None
    /\ published = <<>>
    /\ ~Stored("X")
    /\ \E t \in Tasks : timed(t) /\ tid[t] = "X" /\ pc[t] = "timedout"

\* --------------------------------------------------------------- C20
\* the correlation map passed under keyword f when the plugin was configured
RequestedMap(f) ==
    IF scenario # None /\ f \in DOMAIN scenario.kwargs THEN scenario.kwargs[f] ELSE <<>>

\* a step in which the pipeline starts to handle a message
HandleStep == handling = None /\ handling' # None

\* C20: the three correlation maps passed to PollingConfig are the ones the
\* dispatcher works with, and observing an event whose type is registered in
\* accepted_events_map, successful_completion_events_map or
\* failed_completion_events_map makes one push of status accepted, succeeded
\* or failed, under message_id_getter(event) or, without a getter, under the
\* event's correlation identifier, with the problem_builder result as the
\* problem of a failed entry; a record a poll returns is exactly one of
\* accepted, success and failure.
C20_RegisteredEventsPush ==
    /\ [](scenario # None =>
             /\ Configured
             /\ \A f \in {"accepted_events_map", "successful_completion_events_map",
                           "failed_completion_events_map"} :
                    RequestedMap(f) # <<>> =>
                        (f \in DOMAIN config /\ config[f] = RequestedMap(f)))
    /\ [][HandleStep =>
             LET m == handling'
                 acc == RequestedMap("accepted_events_map")
                 suc == RequestedMap("successful_completion_events_map")
                 fai == RequestedMap("failed_completion_events_map")
             IN /\ m.type \in DOMAIN acc =>
                       /\ PushStep
                       /\ pushed' = <<target_id(acc[m.type], m), "accepted", None, None>>
                /\ m.type \in DOMAIN suc =>
                       /\ PushStep
                       /\ pushed' = <<target_id(suc[m.type], m), "succeeded",
                                       build_data(suc[m.type], m), None>>
                /\ m.type \in DOMAIN fai =>
                       /\ PushStep
                       /\ pushed'[1] = target_id(fai[m.type], m)
                       /\ pushed'[2] = "failed"
                       /\ fai[m.type].problem_builder # None =>
                              pushed'[4] = Message1Failed
                /\ PushStep => results'[pushed'[1]] = RecordOf(pushed')]_vars
    /\ [](\A t \in Tasks :
             pc[t] = "returned" =>
                 Cardinality({P \in {"accepted", "success", "failure"} :
                                \/ P = "accepted" /\ is_accepted(ret[t])
                                \/ P = "success" /\ is_success(ret[t])
                                \/ P = "failure" /\ is_failure(ret[t])}) = 1)

\* --------------------------------------------------------------- C21
\* the event type is a key of none of the correlation maps passed to PollingConfig
Unregistered(T) ==
    /\ T \notin DOMAIN RequestedMap("accepted_events_map")
    /\ T \notin DOMAIN RequestedMap("successful_completion_events_map")
    /\ T \notin DOMAIN RequestedMap("failed_completion_events_map")

AllPollingResults ==
    {PollingResult(i, st, d, p) :
        i \in Ids, st \in PollingStatus, d \in {None, DataN1}, p \in {None, Message1Failed}}

\* the records a caller can hold: stored, returned by poll, returned by peek
HeldResults ==
    {results[i] : i \in Keys} \cup {ret[t] : t \in Tasks}
        \cup (IF peeked = None THEN {} ELSE {peeked.result})

\* what the three properties of record r must say
Classified(r) ==
    /\ is_accepted(r) <=> r.status = "accepted"
    /\ is_success(r) <=> (r.status = "succeeded" /\ r.problem = None)
    /\ is_failure(r) <=> (r.status = "failed" \/ r.problem # None)
    /\ ~(is_success(r) /\ is_failure(r))
    /\ (r.status = "succeeded" /\ r.problem # None) =>
           (is_failure(r) /\ ~is_success(r))
    /\ (r.status = "accepted" /\ r.problem = None) =>
           (is_accepted(r) /\ ~is_success(r) /\ ~is_failure(r))

C23_PeekIdempotent ==
    /\ [](peeked # None => peeked.result = peeked.first)
    /\ [][\A i \in Ids, f \in Filters :
             (~PushStep \/ pushed'[1] # i) =>
                 peek(results', i, f) = peek(results, i, f)]_vars

\* the accepted record was pushed under X; of the three calls made, two were
\* peek(X) without filter, both of which returned that record, and one was a
\* timed poll of X excluding accepted, which gave up
C23_Witness ==
    /\ peeked # None
    /\ peeked.message_id = "X"
    /\ peeked.exclude_statuses = {}
    /\ peeked.run = 2
    /\ peeked.result = PollingResult("X", "accepted", None, None)
    /\ peeked.first = peeked.result
    /\ nCalls = 3
    /\ \E t \in Tasks :
          /\ pc[t] = "timedout"
          /\ tid[t] = "X"
          /\ excl[t] = {"accepted"}

\* --------------------------------------------------------------- C24
\* C24: single current signal.  In every state, every task whose wait() in
\* poll(id) is not over is waiting on the Event that the signal map holds
\* for id: no task is left waiting on an Event that was replaced in the map.
C24_SingleCurrentSignal ==
    \A t \in Tasks :
        (pc[t] = "parked" /\ awaiting[t] \notin fired) =>
            awaiting[t] = events[tid[t]]

\* --------------------------------------------------------------- C25
\* C25: a poll that returns after having been suspended returns the record
\* that is stored for its id in the state it resumes in, which is the record
\* of the most recent push of the id and which its filter admits; and a task
\* whose wait() is over and whose filter admits the stored record returns
\* that record when it resumes, whichever push ended its wait.
C25_ReturnsCurrentRecord ==
    /\ [][\A t \in Tasks :
             (Suspended(t) /\ pc'[t] = "returned") =>
                 /\ ret'[t] = results[tid[t]]
                 /\ pushed[1] = tid[t]
                 /\ ret'[t] = RecordOf(pushed)
                 /\ Admits(excl[t], ret'[t])]_vars
    /\ [][\A t \in Tasks :
             (/\ Runnable(t)
              /\ Stored(tid[t])
              /\ Admits(excl[t], results[tid[t]])
              /\ pc'[t] \notin {pc[t], "timedout"}) =>
                 (pc'[t] = "returned" /\ ret'[t] = results[tid[t]])]_vars

\* the only poll call, poll(X) without filter, suspended on the only Event;
\* push(X, accepted) ended its wait, as the peek that returned the accepted
\* record shows; push(X, succeeded) ran before the task resumed, and the task
\* returned the succeeded record
C25_Witness ==
    /\ nCalls = 2
    /\ nPush = 2
    /\ nextEvent = 2
    /\ peeked # None
    /\ peeked.result = PollingResult("X", "accepted", None, None)
    /\ pushed = <<"X", "succeeded", DataN1, None>>
    /\ \E t \in Tasks :
          /\ pc[t] = "returned"
          /\ excl[t] = {}
          /\ ret[t] = RecordOf(pushed)
          /\ \A u \in Tasks \ {t} : pc[u] = "idle"

\* --------------------------------------------------------------- C26
\* C26: only push mutates the record map.  Every step that changes the map
\* is a push call and changes the entry of the pushed id only; no poll call,
\* suspension, wake-up, re-arm or timeout and no peek adds, changes or
\* removes an entry.
C26_OnlyPushMutatesRecords ==
    [][results' # results =>
          /\ PushStep
          /\ \A i \in Keys \ {pushed'[1]} : results'[i] = results[i]
          /\ UNCHANGED <<pc, tid, excl, awaiting, ret, peeked, nCalls>>]_vars

\* two pushes, two polls and a peek were made: a poll was woken and re-armed
\* with a second Event, a timed poll gave up, the peek returned the stored
\* record, and the map holds the record pushed last under X and nothing else
C26_Witness ==
    /\ nPush = 2
    /\ nCalls = 3
    /\ nextEvent = 3
    /\ results["X"] = RecordOf(pushed)
    /\ \A i \in Keys \ {"X"} : results[i] = None
    /\ peeked # None
    /\ peeked.result = results["X"]
    /\ \E t, u \in Tasks :
          /\ pc[t] = "parked" /\ awaiting[t] = 2
          /\ pc[u] = "timedout"

\* --------------------------------------------------------------- C27
\* C27: records are never deleted.  In every step, whatever it is (push,
\* peek, poll call, wake-up, re-arm, timeout), an id that has a record before
\* has one after, under its own key, and peek without filter of that id
\* returns a record after the step.
C27_RecordsNeverDeleted ==
    [][\A i \in Keys :
          results[i] # None =>
              /\ results'[i] # None
              /\ results'[i].message_id = i
              /\ peek(results', i, {}) # None]_vars

\* an accepted record is stored under X after two pushes, the timed poll of
\* X excluding accepted that gave up did so while a record was stored, and a
\* peek without filter returned the stored record
C27_Witness ==
    /\ nPush = 2
    /\ Stored("X")
    /\ "X" \notin abandoned
    /\ \E t \in Tasks : pc[t] = "timedout" /\ tid[t] = "X" /\ excl[t] = {"accepted"}
    /\ peeked # None
    /\ peeked.message_id = "X"
    /\ peeked.exclude_statuses = {}
    /\ peeked.result = results["X"]
    /\ is_accepted(peeked.result)

\* --------------------------------------------------------------- C28
\* C28: in every state, an id whose Event in the signal map has fired has a
\* record, every stored record carries the key it is stored under as its
\* message_id, every task whose wait() is over finds a record for its id,
\* and no poll has failed on the lookup self.results[message_id].
C28_FiredSignalHasRecord ==
    /\ \A i \in Keys : events[i] \in fired => Stored(i)
    /\ \A i \in Keys : Stored(i) => results[i].message_id = i
    /\ \A t \in Tasks : Runnable(t) => Stored(tid[t])
    /\ \A t \in Tasks : pc[t] # "keyerror"

\* the Event stored for X has fired, a task parked on it has not resumed yet,
\* and the record it is going to re-check is stored under X
C28_Witness ==
    /\ events["X"] # NoEvent
    /\ events["X"] \in fired
    /\ Stored("X")
    /\ results["X"].message_id = "X"
    /\ \E t \in Tasks :
          /\ pc[t] = "parked"
          /\ awaiting[t] = events["X"]
          /\ Runnable(t)

\* --------------------------------------------------------------- C29
\* C29: identifiers are isolated.  A push of id1 leaves, for every other id2,
\* the record and the Event of id2 as they were, changes the result of no
\* peek of id2, and ends the wait of no task blocked in a poll of id2.
C29_IdsIsolated ==
    [][PushStep =>
          \A id2 \in Keys \ {pushed'[1]} :
              /\ results'[id2] = results[id2]
              /\ events'[id2] = events[id2]
              /\ events[id2] \notin fired => events'[id2] \notin fired'
              /\ \A f \in Filters : peek(results', id2, f) = peek(results, id2, f)
              /\ \A t \in Tasks :
                     (Suspended(t) /\ tid[t] = id2 /\ ~Runnable(t)) =>
                         (Suspended(t)' /\ ~Runnable(t)')]_vars

\* a record was pushed under Y while a task was parked in poll(X): the task
\* is still parked on the unfired Event of X, nothing is stored under X, and
\* a peek of X returned absent
C29_Witness ==
    /\ nPush = 1
    /\ pushed[1] = "Y"
    /\ Stored("Y")
    /\ ~Stored("X")
    /\ events["X"] # NoEvent
    /\ events["X"] \notin fired
    /\ events["Y"] = NoEvent
    /\ peeked # None
    /\ peeked.message_id = "X"
    /\ peeked.result = None
    /\ \E t \in Tasks :
          /\ pc[t] = "parked"
          /\ tid[t] = "X"
          /\ awaiting[t] = events["X"]
          /\ ~Runnable(t)

\* --------------------------------------------------------------- C30
\* C30: an invocation of handle_poison_message that an exception left has
\* pushed nothing and carries that exception to its caller.  When the wrapped
\* error handler raised, problem_factory was not called; when problem_factory
\* raised, the wrapped handler had run, once, and the factory had been called
\* with the invocation's exception and message.  The step in which the
\* exception leaves the invocation changes nothing of the store, and every
\* push ever made belongs to an invocation that completed normally.
C30_RaisingHandlerOrFactoryPushesNothing ==
    /\ [](\A k \in Invocations :
             LET b == bridge[k] IN
             b.pc = "raised" =>
                 /\ b.pushes = <<>>
                 /\ b.error \in {Exception("handler failed"), Exception("factory failed")}
                 /\ b.forwarded = << <<b.message, b.transaction_context, b.exception>> >>
                 /\ b.error = Exception("handler failed") => b.built = <<>>
                 /\ b.error = Exception("factory failed") =>
                        /\ b.built = << <<b.exception, b.message>> >>
                        /\ wrapper.problem_factory = RaisingFactory)
    /\ [](nPush = Cardinality({k \in Invocations : bridge[k].pc = "done"}))
    /\ [][\A k \in Invocations :
             (bridge[k].pc # "raised" /\ bridge'[k].pc = "raised") =>
                 UNCHANGED store]_vars

\* with a factory that raises, the wrapped handler raised in the first
\* invocation and the factory in the second, both for message X: nothing was
\* pushed, nothing is stored, and the poll of X is still parked
C30_Witness ==
    /\ wrapper # None
    /\ wrapper.problem_factory = RaisingFactory
    /\ bridge[1].pc = "raised"
    /\ bridge[1].error = Exception("handler failed")
    /\ bridge[1].built = <<>>
    /\ bridge[1].message = TransportMessage("X")
    /\ bridge[2].pc = "raised"
    /\ bridge[2].error = Exception("factory failed")
    /\ Len(bridge[2].built) = 1
    /\ bridge[2].message = TransportMessage("X")
    /\ nPush = 0
    /\ \A i \in Keys : ~Stored(i)
    /\ \E t \in Tasks : pc[t] = "parked" /\ tid[t] = "X" /\ ~Runnable(t)

\* --------------------------------------------------------------- C31
\* C31: the store imposes no order on statuses.  A push of an accepted record
\* for an id that holds a succeeded or failed record replaces that record:
\* after the push peek(id) returns the accepted record and
\* peek(id, exclude_statuses=[accepted]) returns None; and a poll of an id
\* that holds an accepted record, called with exclude_statuses=[accepted],
\* suspends without returning anything.
C31_AcceptedReplacesTerminal ==
    /\ [][(/\ PushStep
           /\ pushed'[2] = "accepted"
           /\ Stored(pushed'[1])
           /\ results[pushed'[1]].status \in {"succeeded", "failed"}) =>
              LET id == pushed'[1] IN
              /\ results'[id] = PollingResult(id, "accepted", pushed'[3], pushed'[4])
              /\ peek(results', id, {}) = results'[id]
              /\ is_accepted(peek(results', id, {}))
              /\ peek(results', id, {"accepted"}) = None]_vars
    /\ [][\A t \in Tasks, i \in Submitted :
             (/\ PollStart(t, i, {"accepted"})
              /\ Stored(i)
              /\ is_accepted(results[i])) =>
                 (Suspended(t)' /\ ret'[t] = None)]_vars

\* a poll of X returned the succeeded record; push(X, accepted) came after it;
\* a peek without filter returned the accepted record, and a poll excluding
\* accepted that found the accepted record when called is suspended
C31_Witness ==
    /\ nPush = 2
    /\ pushed = <<"X", "accepted", None, None>>
    /\ results["X"] = RecordOf(pushed)
    /\ peeked # None
    /\ peeked.message_id = "X"
    /\ peeked.exclude_statuses = {}
    /\ peeked.result = RecordOf(pushed)
    /\ \E t, u \in Tasks :
          /\ pc[t] = "returned"
          /\ is_success(ret[t])
          /\ Suspended(u)
          /\ excl[u] = {"accepted"}
          /\ sawAccepted[u]

\* a step in which PollerTestDouble.poll is called
DoublePollStep == double'.poll_count = double.poll_count + 1

\* the outcome of a call is a raised KeyError
RaisedKeyError(out) ==
    /\ out # None
    /\ "raised" \in DOMAIN out
    /\ out.raised.type = "KeyError"

\* C32: PollerTestDouble.poll never blocks: the step of the call itself ends
\* with a returned record or a raised KeyError. It returns the record stubbed
\* or pushed for the id; when there is none, a record built from the
\* configured default status, data and problem; it raises KeyError when there
\* is neither, or when the status of the chosen record is in exclude_statuses.
\* A stubbed record is chosen even when a default is configured. Whatever the
\* outcome, poll_count grows by one, the id is appended to all_poll_calls and
\* stored in last_poll_message_id.
C32_DoublePollOutcome ==
    [][DoublePollStep =>
          LET id == double'.last_poll_message_id
              f == double'.asked
              stub == double.stubbed_results[id]
              out == double'.returned
          IN /\ id \in Ids
             /\ double'.all_poll_calls = Append(double.all_poll_calls, id)
             /\ double'.poll_count = Len(double'.all_poll_calls)
             /\ double'.made = double.made + 1
             /\ out # None
             /\ IF stub # None
                THEN IF stub.status \in f THEN RaisedKeyError(out) ELSE out = stub
                ELSE IF double.default_status = NoStatus
                     THEN RaisedKeyError(out)
                     ELSE IF double.default_status \in f
                          THEN RaisedKeyError(out)
                          ELSE /\ out.message_id = id
                               /\ out.status = double.default_status
                               /\ out.data = double.default_data
                               /\ out.problem = double.default_problem]_vars

\* X is stubbed as accepted and succeed_all is configured; the only poll,
\* poll(X, exclude_statuses=[accepted]), chose the stub and raised KeyError,
\* and the call was recorded
C32_Witness ==
    /\ double.stubbed_results["X"] # None
    /\ double.stubbed_results["X"].status = "accepted"
    /\ double.default_status = "succeeded"
    /\ double.peek_count = 0
    /\ double.poll_count = 1
    /\ double.all_poll_calls = <<"X">>
    /\ double.last_poll_message_id = "X"
    /\ double.asked = {"accepted"}
    /\ RaisedKeyError(double.returned)

\* the fields of a PollerTestDouble that the program holds
DoubleFields ==
    {"stubbed_results", "default_status", "default_data", "default_problem",
     "poll_count", "peek_count", "push_count",
     "last_poll_message_id", "last_peek_message_id", "last_push",
     "all_poll_calls", "all_peek_calls", "all_push_calls"}

\* push_count and last_push agree with all_push_calls on instance d
PushBookkeeping(d) ==
    /\ d.push_count = Len(d.all_push_calls)
    /\ d.last_push = IF d.all_push_calls = <<>>
                     THEN None
                     ELSE d.all_push_calls[Len(d.all_push_calls)]

\* C33: after any sequence of stub, default, poll, peek, push and reset calls
\* on PollerTestDouble and of push and reset calls on PollerSpy, push_count
\* is the length of all_push_calls and last_push is the last element of
\* all_push_calls, None when the list is empty; reset leaves every counter at
\* 0, every recorded list empty, every last_ field None, no stub and no
\* default, as after construction.
C33_PushBookkeepingAndReset ==
    /\ [](PushBookkeeping(double) /\ PushBookkeeping(spy))
    /\ [][PollerTestDouble_reset =>
             \A k \in DoubleFields : double'[k] = NewPollerTestDouble[k]]_vars
    /\ [][PollerSpy_reset =>
             /\ spy'.push_count = 0
             /\ spy'.last_push = None
             /\ spy'.all_push_calls = <<>>]_vars

\* the double was pushed to, polled and reset and holds its initial values
\* again, while the spy has recorded one push that reached the wrapped poller
C33_Witness ==
    /\ double.made >= 3
    /\ \A k \in DoubleFields : double[k] = NewPollerTestDouble[k]
    /\ spy.push_count = 1
    /\ Len(spy.all_push_calls) = 1
    /\ spy.last_push = call_info(pushed[1], pushed[2], pushed[3], pushed[4])
    /\ results["X"] = RecordOf(pushed)

====
